---- MODULE Spec2Model ----
(***************************************************************************)
(* IntrospectMe: the schema model (src/src/schema.rs) and the recursive    *)
(* type walker (src/src/walker.rs) driven by an arbitrary remote server.   *)
(*                                                                         *)
(* Strings are sequences of one-character strings, so that suffix tests,   *)
(* brace counting and query synthesis are computed as the code computes    *)
(* them.  Option<String> is <<>> (None) or <<s>> (Some(s)).  Maps are       *)
(* functions whose domain is the key set.                                  *)
(***************************************************************************)
EXTENDS Integers, Sequences, FiniteSets, TLC

VARIABLES
    schema,        \* ReconstructedSchema behind Arc<Mutex<..>>
    calls,         \* history of model-level calls (SpecModel only)
    probed_types,  \* TypeWalker.probed_types: HashSet behind Arc<Mutex<..>>
    schema_lock,   \* holder of the schema mutex: "free" or "walker"
    probed_lock,   \* holder of the probed_types mutex: "free" or "walker"
    max_depth,     \* TypeWalker.max_depth
    inflight,      \* the request awaiting its response, or NoRequest
    pc,            \* position of the walker task in run / probe_root_type
    root,          \* locals of probe_root_type
    runv,          \* locals of run
    stack          \* activation records of probe_type_recursive, innermost last

(***************************************************************************)
(* String helpers                                                          *)
(***************************************************************************)
sQuery == <<"Q","u","e","r","y">>
sQueryRoot == <<"Q","u","e","r","y","R","o","o","t">>
sUser == <<"U","s","e","r">>
sPost == <<"P","o","s","t">>
s_user == <<"u","s","e","r">>
s_posts == <<"p","o","s","t","s">>
s_status == <<"s","t","a","t","u","s">>
s_address == <<"a","d","d","r","e","s","s">>
s_success == <<"s","u","c","c","e","s","s">>
s_id == <<"i","d">>
s_xuser == <<"x","u","s","e","r">>

\* str::ends_with
ends_with(s, suffix) ==
    /\ Len(s) >= Len(suffix)
    /\ SubSeq(s, Len(s) - Len(suffix) + 1, Len(s)) = suffix

None == <<>>
Some(x) == <<x>>

EmptyMap == [k \in {} |-> k]
\* BTreeMap/HashMap insert (overwrites)
MapPut(m, k, v) == [x \in (DOMAIN m) \cup {k} |-> IF x = k THEN v ELSE m[x]]

(***************************************************************************)
(* Schema model: src/src/schema.rs                                         *)
(***************************************************************************)
\* ReconstructedSchema::new
NewSchema ==
    [types |-> EmptyMap, query_type |-> sQuery, discovery_log |-> <<>>]

\* a mutant of is_list_name: every name ending in "s" is list-shaped
is_list_name_plural(field_name) == ends_with(field_name, <<"s">>)

\* the naming heuristic of add_field
is_list_name(field_name) ==
    /\ ends_with(field_name, <<"s">>)
    /\ ~ends_with(field_name, <<"s","s">>)
    /\ field_name # s_address
    /\ field_name # s_status
    /\ field_name # s_success

\* a mutant of entry_or_insert: the entry is always replaced by an empty type
entry_or_insert_fresh(types, type_name) ==
    MapPut(types, type_name, [name |-> type_name, fields |-> EmptyMap])

\* types.entry(type_name).or_insert_with(empty DiscoveredType)
entry_or_insert(types, type_name) ==
    IF type_name \in DOMAIN types
    THEN types
    ELSE MapPut(types, type_name, [name |-> type_name, fields |-> EmptyMap])

\* a mutant of add_field: the contains_key test is lost
add_field_no_dup_test(s, type_name, field_name) ==
    LET types1 == entry_or_insert(s.types, type_name)
        typ == types1[type_name]
        info == [name |-> field_name, type_name |-> None,
                 is_list |-> is_list_name(field_name)]
    IN  [schema |-> [s EXCEPT !.types =
                        MapPut(types1, type_name,
                               [typ EXCEPT !.fields = MapPut(typ.fields, field_name, info)])],
         ret |-> TRUE]

\* a mutant of add_field: an existing field is reported as not new, but its
\* FieldInfo is written again
add_field_overwrites(s, type_name, field_name) ==
    LET types1 == entry_or_insert(s.types, type_name)
        typ == types1[type_name]
        info == [name |-> field_name, type_name |-> None,
                 is_list |-> is_list_name(field_name)]
    IN  [schema |-> [s EXCEPT !.types =
                        MapPut(types1, type_name,
                               [typ EXCEPT !.fields = MapPut(typ.fields, field_name, info)])],
         ret |-> field_name \notin DOMAIN typ.fields]

\* ReconstructedSchema::add_field: the schema after the call and the value returned
add_field(s, type_name, field_name) ==
    LET types1 == entry_or_insert(s.types, type_name)
        typ == types1[type_name]
        info == [name |-> field_name, type_name |-> None,
                 is_list |-> is_list_name(field_name)]
    IN  IF field_name \in DOMAIN typ.fields
        THEN [schema |-> [s EXCEPT !.types = types1], ret |-> FALSE]
        ELSE [schema |-> [s EXCEPT !.types =
                            MapPut(types1, type_name,
                                   [typ EXCEPT !.fields = MapPut(typ.fields, field_name, info)])],
              ret |-> TRUE]

\* a mutant of set_field_type: is_list is computed again, from the type name
set_field_type_relists(s, parent_type, field_name, type_name) ==
    IF parent_type \in DOMAIN s.types
       /\ field_name \in DOMAIN s.types[parent_type].fields
    THEN [s EXCEPT !.types[parent_type].fields[field_name] =
            [@ EXCEPT !.type_name = Some(type_name),
                      !.is_list = is_list_name(type_name)]]
    ELSE s

\* a mutant of set_field_type: an unknown parent or field is created first
set_field_type_upsert(s, parent_type, field_name, type_name) ==
    [add_field(s, parent_type, field_name).schema
        EXCEPT !.types[parent_type].fields[field_name].type_name = Some(type_name)]

\* ReconstructedSchema::set_field_type
set_field_type(s, parent_type, field_name, type_name) ==
    IF parent_type \in DOMAIN s.types
       /\ field_name \in DOMAIN s.types[parent_type].fields
    THEN [s EXCEPT !.types[parent_type].fields[field_name].type_name = Some(type_name)]
    ELSE s

\* a mutant of log_discovery: an entry already in the log is not added again
log_discovery_dedup(s, parent_type, probed_field, discovered) ==
    LET e == [parent_type |-> parent_type, probed_field |-> probed_field,
              discovered_fields |-> discovered]
    IN  IF \E i \in 1..Len(s.discovery_log) : s.discovery_log[i] = e
        THEN s
        ELSE [s EXCEPT !.discovery_log = Append(@, e)]

\* ReconstructedSchema::log_discovery
log_discovery(s, parent_type, probed_field, discovered) ==
    [s EXCEPT !.discovery_log =
        Append(@, [parent_type |-> parent_type,
                   probed_field |-> probed_field,
                   discovered_fields |-> discovered])]

(***************************************************************************)
(* Walker helpers: src/src/walker.rs                                       *)
(***************************************************************************)
s_use == <<"u","s","e">>
s_suer == <<"s","u","e","r">>
s_users == <<"u","s","e","r","s">>

\* the scalars array of is_likely_scalar
LikelyScalars ==
    {
      <<"i","d">>,
      <<"n","a","m","e">>,
      <<"e","m","a","i","l">>,
      <<"p","a","s","s","w","o","r","d">>,
      <<"t","o","k","e","n">>,
      <<"t","i","t","l","e">>,
      <<"d","e","s","c","r","i","p","t","i","o","n">>,
      <<"b","o","d","y">>,
      <<"t","e","x","t">>,
      <<"c","o","n","t","e","n","t">>,
      <<"m","e","s","s","a","g","e">>,
      <<"s","l","u","g">>,
      <<"u","r","l">>,
      <<"p","h","o","n","e">>,
      <<"c","o","d","e">>,
      <<"k","e","y">>,
      <<"v","a","l","u","e">>,
      <<"l","a","b","e","l">>,
      <<"b","i","o">>,
      <<"w","e","b","s","i","t","e">>,
      <<"u","s","e","r","n","a","m","e">>,
      <<"d","i","s","p","l","a","y","N","a","m","e">>,
      <<"f","i","r","s","t","N","a","m","e">>,
      <<"l","a","s","t","N","a","m","e">>,
      <<"a","v","a","t","a","r">>,
      <<"i","m","a","g","e">>,
      <<"s","t","a","t","u","s">>,
      <<"s","t","a","t","e">>,
      <<"t","y","p","e">>,
      <<"r","o","l","e">>,
      <<"a","c","t","i","v","e">>,
      <<"e","n","a","b","l","e","d">>,
      <<"d","e","l","e","t","e","d">>,
      <<"s","u","c","c","e","s","s">>,
      <<"p","r","i","c","e">>,
      <<"a","m","o","u","n","t">>,
      <<"t","o","t","a","l">>,
      <<"s","u","b","t","o","t","a","l">>,
      <<"t","a","x">>,
      <<"d","i","s","c","o","u","n","t">>,
      <<"q","u","a","n","t","i","t","y">>,
      <<"s","k","u">>,
      <<"z","i","p">>,
      <<"c","i","t","y">>,
      <<"c","o","u","n","t","r","y">>,
      <<"d","a","t","e">>,
      <<"t","i","m","e","s","t","a","m","p">>,
      <<"c","r","e","a","t","e","d","A","t">>,
      <<"u","p","d","a","t","e","d","A","t">>,
      <<"d","e","l","e","t","e","d","A","t">>,
      <<"t","o","t","a","l","C","o","u","n","t">>,
      <<"h","a","s","N","e","x","t","P","a","g","e">>,
      <<"h","a","s","P","r","e","v","i","o","u","s","P","a","g","e">>,
      <<"s","t","a","r","t","C","u","r","s","o","r">>,
      <<"e","n","d","C","u","r","s","o","r">>,
      <<"c","u","r","s","o","r">>,
      <<"l","i","m","i","t">>,
      <<"o","f","f","s","e","t">>,
      <<"p","a","g","e","S","i","z","e">>,
      <<"s","o","r","t">>,
      <<"s","o","r","t","B","y">>,
      <<"c","a","t","e","g","o","r","y">>
    }

is_likely_scalar(field_name) == field_name \in LikelyScalars

\* build_root_context_queries: the bare field, and the field with an id argument
build_root_context_queries(field_name) ==
    << field_name,
       field_name \o <<"(","i","d",":"," ","\"","1","\"",")">> >>

\* a mutant of count_open: at most one brace is counted
count_open_once(ctx) == IF \E i \in 1..Len(ctx) : ctx[i] = "{" THEN 1 ELSE 0

\* ctx.matches('{').count()
RECURSIVE count_open(_)
count_open(ctx) ==
    IF ctx = <<>> THEN 0
    ELSE (IF Head(ctx) = "{" THEN 1 ELSE 0) + count_open(Tail(ctx))

\* " }".repeat(n)
RECURSIVE repeat_close(_)
repeat_close(n) == IF n = 0 THEN <<>> ELSE <<" ","}">> \o repeat_close(n - 1)

\* format!("{{ {} }}", field): the root-level query of one field
bare_query(field_name) == <<"{"," ">> \o field_name \o <<" ","}">>

\* format!("{{ {} {{ {} }} }}", ctx, field) followed by one " }" per '{' of ctx
nested_query(ctx, field_name) ==
    <<"{"," ">> \o ctx \o <<" ","{"," ">> \o field_name \o <<" ","}"," ","}">>
        \o repeat_close(count_open(ctx))

\* format!("{} {{ {}", ctx, field_name): a parent context extended by one field
child_context(ctx, field_name) == ctx \o <<" ","{"," ">> \o field_name

\* contexts.iter().map(child_context).collect()
child_contexts(contexts, field_name) ==
    [k \in 1..Len(contexts) |-> child_context(contexts[k], field_name)]

\* entry(k).or_insert_with(v) on a HashMap
or_insert(m, k, v) == IF k \in DOMAIN m THEN m ELSE MapPut(m, k, v)

\* for hint in hints { map.entry(hint.field_name).or_insert(hint.type_name) }
RECURSIVE record_hints(_, _)
record_hints(m, hints) ==
    IF hints = <<>> THEN m
    ELSE record_hints(or_insert(m, Head(hints).field_name, Head(hints).type_name),
                      Tail(hints))

\* the hint loop of the corpus pass of probe_type_recursive: hints naming the
\* probed type itself are skipped
RECURSIVE record_child_hints(_, _, _)
record_child_hints(m, hints, type_name) ==
    IF hints = <<>> THEN m
    ELSE record_child_hints(
            IF Head(hints).type_name # type_name
            THEN or_insert(m, Head(hints).field_name, Head(hints).type_name)
            ELSE m,
            Tail(hints), type_name)

\* the hint loop of the re-probe pass: only hints for the field just queried
RECURSIVE record_field_hints(_, _, _)
record_field_hints(m, hints, field_name) ==
    IF hints = <<>> THEN m
    ELSE record_field_hints(
            IF Head(hints).field_name = field_name
            THEN or_insert(m, Head(hints).field_name, Head(hints).type_name)
            ELSE m,
            Tail(hints), field_name)

\* suggestion.parent_type.clone().unwrap_or_else(|| default)
unwrap_or(opt, default) == IF opt = None THEN default ELSE opt[1]

(***************************************************************************)
(* Bounds                                                                  *)
(***************************************************************************)
MaxProbes == 1        \* length of the prefix of the probe corpus that is iterated
MaxDepthBound == 3    \* max_depth ranges over 0..MaxDepthBound

\* wordlist::full_probe_list(), cut to its first MaxProbes entries (the
\* mutations of the first base word "user")
probes == SubSeq(<<s_xuser, s_use, s_suer, s_users>>, 1, MaxProbes)

\* SHORT_FIELD_BRUTE, cut to its first entry
SHORT_FIELD_BRUTE == <<s_id>>

(***************************************************************************)
(* The remote server: what client.send_probe / probe_root_field /          *)
(* field_exists can return                                                 *)
(***************************************************************************)
Suggestion(q, names, parent) ==
    [queried_field |-> q, suggestions |-> names, parent_type |-> Some(parent)]
Hint(f, t) == [field_name |-> f, type_name |-> t]

ProbeResult(ss, hs) == [suggestions |-> ss, object_type_hints |-> hs]

\* The ProbeResult values the server's answers parse to.  Each FieldSuggestion
\* is as parse_probe_response builds it: a non-empty list of names and a parent
\* type that is always present.
ProbeResults ==
    { \* no recognizable fact
      ProbeResult(<<>>, <<>>),
      \* suggestions about three types (the default root name, a first and a
      \* second other name) and hints giving two fields the same object type
      ProbeResult(<<Suggestion(s_xuser, <<s_user>>, sQuery),
                    Suggestion(s_xuser, <<s_posts>>, sQueryRoot),
                    Suggestion(s_xuser, <<s_user, s_posts>>, sUser)>>,
                  <<Hint(s_user, sUser), Hint(s_posts, sUser)>>),
      \* a suggestion about type Post and no hint
      ProbeResult(<<Suggestion(s_xuser, <<s_user>>, sPost)>>, <<>>),
      \* hints alone: two types for the field posts, and a field user that
      \* leads (back) to User
      ProbeResult(<<>>, <<Hint(s_posts, sPost), Hint(s_posts, sUser),
                          Hint(s_user, sUser)>>) }

\* Result<ProbeResult, String>
ErrResponse == [ok |-> FALSE]
OkResponse(result) == [ok |-> TRUE, result |-> result]
ProbeResponses == {ErrResponse} \cup { OkResponse(r) : r \in ProbeResults }

\* client.field_exists(query, name): the response is judged by whether it
\* carries an "unknown field" rejection of that exact name
field_exists(rejected, name) == name \notin rejected

\* Result<bool, String> of field_exists
ExistsResponses(name) ==
    {ErrResponse} \cup { [ok |-> TRUE, exists |-> field_exists(rej, name)] :
                            rej \in {{}, {name}} }

NoRequest == [kind |-> "none"]
Request(kind, query) == [kind |-> kind, query |-> query]

(***************************************************************************)
(* Walker state                                                            *)
(***************************************************************************)
NoResult == [suggestions |-> <<>>, object_type_hints |-> <<>>]

\* the locals of probe_root_type at its entry
RootLocals ==
    [i |-> 1, discovered_fields |-> {}, root_type_name |-> sQuery,
     object_fields |-> EmptyMap, result |-> NoResult, si |-> 0, fi |-> 0,
     to_check |-> {}, shorti |-> 0]

\* the locals of run before probe_root_type returns
RunLocals == [root_type_name |-> sQuery, object_fields |-> {}, pending |-> {}]

\* the locals of probe_type_recursive at its entry
Frame(type_name, contexts, depth) ==
    [type_name |-> type_name, contexts |-> contexts, depth |-> depth,
     pc |-> "enter", discovered_fields |-> {}, child_object_types |-> EmptyMap,
     i |-> 1, ctxi |-> 0, found |-> FALSE, result |-> NoResult, si |-> 0,
     fi |-> 0, to_check |-> {}, cur |-> <<>>, shorti |-> 0, children |-> {}]

Top == stack[Len(stack)]
WithTop(fr) == [stack EXCEPT ![Len(stack)] = fr]
Pop == SubSeq(stack, 1, Len(stack) - 1)

\* the key/value pairs of a HashMap, as into_iter() yields them in some order
Pairs(m) == { <<k, m[k]>> : k \in DOMAIN m }

\* a mutant of after_drop_schema: the drop is forgotten
after_forgotten_drop == "walker"

\* the schema guard after the explicit drop(schema) of probe_root_type
after_drop_schema == "free"

\* TypeWalker::new and ReconstructedSchema::new, for any configured depth
Init ==
    /\ schema = NewSchema
    /\ calls = <<>>
    /\ probed_types = {}
    /\ schema_lock = "free"
    /\ probed_lock = "free"
    /\ max_depth \in 0..MaxDepthBound
    /\ inflight = NoRequest
    /\ pc = "r_loop"
    /\ root = RootLocals
    /\ runv = RunLocals
    /\ stack = <<>>

(***************************************************************************)
(* probe_root_type (phase 1)                                               *)
(***************************************************************************)
\* top of the corpus loop: send the next root probe, or leave the loop and
\* compute fields_to_check
RootLoop ==
    /\ pc = "r_loop"
    /\ IF root.i <= Len(probes)
       THEN /\ inflight' = Request("probe_root_field", bare_query(probes[root.i]))
            /\ pc' = "r_wait"
            /\ UNCHANGED root
       ELSE /\ root' = [root EXCEPT !.to_check =
                          { f \in root.discovered_fields :
                              ~is_likely_scalar(f) /\ f \notin DOMAIN root.object_fields }]
            /\ pc' = "r_check"
            /\ UNCHANGED inflight
    /\ UNCHANGED <<schema, calls, probed_types, schema_lock, probed_lock, max_depth, runv, stack>>

\* match self.client.probe_root_field(&probe).await: Ok(result) is processed,
\* Err is skipped (the debug message aside) and the loop goes on
root_recv(r, resp) ==
    IF resp.ok
    THEN [locals |-> [r EXCEPT !.result = resp.result, !.si = 1], pc |-> "r_sugg"]
    ELSE [locals |-> r, pc |-> "r_err"]

\* a mutant of root_probe_err: the error is propagated and run returns Err
root_probe_err_fatal(r) == [locals |-> r, pc |-> "failed"]

\* the Err(e) arm: nothing but the optional debug line, then the next probe
root_probe_err(r) == [locals |-> [r EXCEPT !.i = @ + 1], pc |-> "r_loop"]

RootErr ==
    /\ pc = "r_err"
    /\ root' = root_probe_err(root).locals
    /\ pc' = root_probe_err(root).pc
    /\ UNCHANGED <<schema, calls, probed_types, schema_lock, probed_lock, max_depth, inflight, runv, stack>>

RootRecv ==
    /\ pc = "r_wait"
    /\ \E resp \in ProbeResponses :
        /\ root' = root_recv(root, resp).locals
        /\ pc' = root_recv(root, resp).pc
    /\ inflight' = NoRequest
    /\ UNCHANGED <<schema, calls, probed_types, schema_lock, probed_lock, max_depth, runv, stack>>

\* a mutant of resolve_root_name: the last non-default parent wins
resolve_root_name_last_wins(root_type_name, parent) ==
    IF parent # sQuery THEN parent ELSE root_type_name

\* if root_type_name == "Query" && parent != "Query" { root_type_name = parent }
resolve_root_name(root_type_name, parent) ==
    IF root_type_name = sQuery /\ parent # sQuery THEN parent ELSE root_type_name

\* one suggestion of the result: resolve the root name, append the log entry;
\* after the last suggestion, record the hints and go to the next probe
RootSuggestion ==
    /\ pc = "r_sugg"
    /\ IF root.si <= Len(root.result.suggestions)
       THEN LET suggestion == root.result.suggestions[root.si]
                parent == unwrap_or(suggestion.parent_type, sQuery)
            IN  /\ schema_lock = "free"
                /\ schema' = log_discovery(schema, parent, suggestion.queried_field,
                                           suggestion.suggestions)
                /\ root' = [root EXCEPT
                              !.root_type_name = resolve_root_name(@, parent),
                              !.fi = 1]
                /\ pc' = "r_add_lock"
       ELSE /\ root' = [root EXCEPT
                          !.object_fields = record_hints(@, root.result.object_type_hints),
                          !.result = NoResult, !.si = 0, !.i = @ + 1]
            /\ pc' = "r_loop"
            /\ UNCHANGED schema
    /\ UNCHANGED <<calls, probed_types, schema_lock, probed_lock, max_depth, inflight, runv, stack>>

\* the field loop of one suggestion: take the schema guard for the next name
RootAddLock ==
    /\ pc = "r_add_lock"
    /\ IF root.fi <= Len(root.result.suggestions[root.si].suggestions)
       THEN /\ schema_lock = "free"
            /\ schema_lock' = "walker"
            /\ pc' = "r_add"
            /\ UNCHANGED root
       ELSE /\ root' = [root EXCEPT !.si = @ + 1, !.fi = 0]
            /\ pc' = "r_sugg"
            /\ UNCHANGED schema_lock
    /\ UNCHANGED <<schema, calls, probed_types, probed_lock, max_depth, inflight, runv, stack>>

\* add_field(parent, field_name) under the guard, which the end of the loop
\* body drops
RootAdd ==
    /\ pc = "r_add"
    /\ LET suggestion == root.result.suggestions[root.si]
           parent == unwrap_or(suggestion.parent_type, sQuery)
           field_name == suggestion.suggestions[root.fi]
           r == add_field(schema, parent, field_name)
       IN  /\ schema' = r.schema
           /\ root' = [root EXCEPT
                         !.discovered_fields = IF r.ret THEN @ \cup {field_name} ELSE @,
                         !.fi = @ + 1]
    /\ schema_lock' = "free"
    /\ pc' = "r_add_lock"
    /\ UNCHANGED <<calls, probed_types, probed_lock, max_depth, inflight, runv, stack>>

\* the re-probe pass: a bare query for each field of fields_to_check
RootCheck ==
    /\ pc = "r_check"
    /\ IF root.to_check # {}
       THEN \E field_name \in root.to_check :
              /\ inflight' = Request("send_probe", bare_query(field_name))
              /\ root' = [root EXCEPT !.to_check = @ \ {field_name}]
              /\ pc' = "r_check_wait"
       ELSE /\ root' = [root EXCEPT !.shorti = 1]
            /\ pc' = "r_brute"
            /\ UNCHANGED inflight
    /\ UNCHANGED <<schema, calls, probed_types, schema_lock, probed_lock, max_depth, runv, stack>>

\* if let Ok(result) = self.client.send_probe(&query).await { record the hints }
root_check_recv(r, resp) ==
    IF resp.ok
    THEN [locals |-> [r EXCEPT !.object_fields =
                                  record_hints(@, resp.result.object_type_hints)],
          pc |-> "r_check"]
    ELSE [locals |-> r, pc |-> "r_check_err"]

\* the request of the re-probe pass failed: on to the next field
root_check_err(r) == [locals |-> r, pc |-> "r_check"]

RootCheckErr ==
    /\ pc = "r_check_err"
    /\ root' = root_check_err(root).locals
    /\ pc' = root_check_err(root).pc
    /\ UNCHANGED <<schema, calls, probed_types, schema_lock, probed_lock, max_depth, inflight, runv, stack>>

RootCheckRecv ==
    /\ pc = "r_check_wait"
    /\ \E resp \in ProbeResponses :
        /\ root' = root_check_recv(root, resp).locals
        /\ pc' = root_check_recv(root, resp).pc
    /\ inflight' = NoRequest
    /\ UNCHANGED <<schema, calls, probed_types, schema_lock, probed_lock, max_depth, runv, stack>>

\* the short-name loop: skip a discovered name, else send the existence check;
\* after the last name probe_root_type returns to run
RootBrute ==
    /\ pc = "r_brute"
    /\ IF root.shorti <= Len(SHORT_FIELD_BRUTE)
       THEN LET short_field == SHORT_FIELD_BRUTE[root.shorti]
            IN  IF short_field \in root.discovered_fields
                THEN /\ root' = [root EXCEPT !.shorti = @ + 1]
                     /\ UNCHANGED <<inflight, pc, runv>>
                ELSE /\ inflight' = Request("field_exists", bare_query(short_field))
                     /\ pc' = "r_brute_wait"
                     /\ UNCHANGED <<root, runv>>
       ELSE /\ runv' = [root_type_name |-> root.root_type_name,
                        object_fields |-> Pairs(root.object_fields),
                        pending |-> Pairs(root.object_fields)]
            /\ root' = RootLocals
            /\ pc' = "run_set_root"
            /\ UNCHANGED inflight
    /\ UNCHANGED <<schema, calls, probed_types, schema_lock, probed_lock, max_depth, stack>>

\* match self.client.field_exists(..).await { Ok(true) => .., _ => {} }
root_brute_recv(r, resp) ==
    IF resp.ok /\ resp.exists
    THEN [locals |-> r, pc |-> "r_brute_lock"]
    ELSE [locals |-> r, pc |-> "r_brute_no"]

\* the `_ => {}` arm (Ok(false) or Err): on to the next short name
root_brute_no(r) == [locals |-> [r EXCEPT !.shorti = @ + 1], pc |-> "r_brute"]

RootBruteNo ==
    /\ pc = "r_brute_no"
    /\ root' = root_brute_no(root).locals
    /\ pc' = root_brute_no(root).pc
    /\ UNCHANGED <<schema, calls, probed_types, schema_lock, probed_lock, max_depth, inflight, runv, stack>>

RootBruteRecv ==
    /\ pc = "r_brute_wait"
    /\ \E resp \in ExistsResponses(SHORT_FIELD_BRUTE[root.shorti]) :
        /\ root' = root_brute_recv(root, resp).locals
        /\ pc' = root_brute_recv(root, resp).pc
    /\ inflight' = NoRequest
    /\ UNCHANGED <<schema, calls, probed_types, schema_lock, probed_lock, max_depth, runv, stack>>

RootBruteLock ==
    /\ pc = "r_brute_lock"
    /\ schema_lock = "free"
    /\ schema_lock' = "walker"
    /\ pc' = "r_brute_add"
    /\ UNCHANGED <<schema, calls, probed_types, probed_lock, max_depth, inflight, root, runv, stack>>

\* add_field(root_type_name, short_field), then drop(schema)
RootBruteAdd ==
    /\ pc = "r_brute_add"
    /\ LET short_field == SHORT_FIELD_BRUTE[root.shorti]
           r == add_field(schema, root.root_type_name, short_field)
       IN  /\ schema' = r.schema
           /\ root' = [root EXCEPT
                         !.discovered_fields = IF r.ret THEN @ \cup {short_field} ELSE @]
    /\ schema_lock' = after_drop_schema
    /\ pc' = "r_brute_bare"
    /\ UNCHANGED <<calls, probed_types, probed_lock, max_depth, inflight, runv, stack>>

\* the bare query that asks whether the short field is an object
RootBruteBare ==
    /\ pc = "r_brute_bare"
    /\ inflight' = Request("send_probe", bare_query(SHORT_FIELD_BRUTE[root.shorti]))
    /\ pc' = "r_brute_bare_wait"
    /\ UNCHANGED <<schema, calls, probed_types, schema_lock, probed_lock, max_depth, root, runv, stack>>

\* if let Ok(result) = self.client.send_probe(&bare_query).await { record the hints }
root_brute_bare_recv(r, resp) ==
    IF resp.ok
    THEN [locals |-> [r EXCEPT
                        !.object_fields = record_hints(@, resp.result.object_type_hints),
                        !.shorti = @ + 1],
          pc |-> "r_brute"]
    ELSE [locals |-> r, pc |-> "r_bare_err"]

\* the bare query failed: on to the next short name
root_bare_err(r) == [locals |-> [r EXCEPT !.shorti = @ + 1], pc |-> "r_brute"]

RootBareErr ==
    /\ pc = "r_bare_err"
    /\ root' = root_bare_err(root).locals
    /\ pc' = root_bare_err(root).pc
    /\ UNCHANGED <<schema, calls, probed_types, schema_lock, probed_lock, max_depth, inflight, runv, stack>>

RootBruteBareRecv ==
    /\ pc = "r_brute_bare_wait"
    /\ \E resp \in ProbeResponses :
        /\ root' = root_brute_bare_recv(root, resp).locals
        /\ pc' = root_brute_bare_recv(root, resp).pc
    /\ inflight' = NoRequest
    /\ UNCHANGED <<schema, calls, probed_types, schema_lock, probed_lock, max_depth, runv, stack>>

(***************************************************************************)
(* run (phase 2 driver)                                                    *)
(***************************************************************************)
\* self.schema.lock().await.query_type = root_type_name.clone()
RunSetRoot ==
    /\ pc = "run_set_root"
    /\ schema_lock = "free"
    /\ schema' = [schema EXCEPT !.query_type = runv.root_type_name]
    /\ pc' = "run_loop"
    /\ UNCHANGED <<calls, probed_types, schema_lock, probed_lock, max_depth, inflight, root, runv, stack>>

\* a mutant of run_field_type: the type is recorded only when the walk descends
run_field_type_when_descending(s, root_type_name, field_name, type_name) ==
    IF max_depth >= 1
    THEN set_field_type(s, root_type_name, field_name, type_name)
    ELSE s

\* the schema after the first statement of the loop body of run
run_field_type(s, root_type_name, field_name, type_name) ==
    set_field_type(s, root_type_name, field_name, type_name)

\* for (field_name, type_name) in &object_fields: set the field's type on the
\* root and call probe_type_recursive at depth 1; after the loop take the
\* schema guard for the summary
RunLoop ==
    /\ pc = "run_loop"
    /\ schema_lock = "free"
    /\ IF runv.pending # {}
       THEN \E p \in runv.pending :
              /\ schema' = run_field_type(schema, runv.root_type_name, p[1], p[2])
              /\ runv' = [runv EXCEPT !.pending = @ \ {p}]
              /\ stack' = <<Frame(p[2], build_root_context_queries(p[1]), 1)>>
              /\ pc' = "rec"
              /\ UNCHANGED schema_lock
       ELSE /\ schema_lock' = "walker"
            /\ pc' = "run_finish"
            /\ UNCHANGED <<schema, runv, stack>>
    /\ UNCHANGED <<calls, probed_types, probed_lock, max_depth, inflight, root>>

\* the summary is printed and run returns Ok(()), dropping the guard
RunFinish ==
    /\ pc = "run_finish"
    /\ schema_lock' = "free"
    /\ pc' = "done"
    /\ UNCHANGED <<schema, calls, probed_types, probed_lock, max_depth, inflight, root, runv, stack>>

(***************************************************************************)
(* probe_type_recursive                                                    *)
(***************************************************************************)
InRec(label) == pc = "rec" /\ stack # <<>> /\ Top.pc = label

\* return Ok(()) from the innermost activation
ReturnStack == Pop
ReturnPc == IF Len(stack) = 1 THEN "run_loop" ELSE "rec"

\* a mutant of depth_exceeded: the bound is off by one
depth_exceeded_off_by_one(depth) == depth > max_depth + 1

\* the depth test of probe_type_recursive
depth_exceeded(depth) == depth > max_depth

\* a mutant of probed_insert: the result of insert is not looked at
probed_insert_always_new(probed, type_name) ==
    [set |-> probed \cup {type_name}, new |-> TRUE]

\* probed.insert(type_name): the set afterwards and whether the name was new
probed_insert(probed, type_name) ==
    [set |-> probed \cup {type_name}, new |-> type_name \notin probed]

\* if depth > self.max_depth { return Ok(()) }; else take the probed_types guard
RecEnter ==
    /\ InRec("enter")
    /\ IF depth_exceeded(Top.depth)
       THEN /\ stack' = ReturnStack
            /\ pc' = ReturnPc
            /\ UNCHANGED probed_lock
       ELSE /\ probed_lock = "free"
            /\ probed_lock' = "walker"
            /\ stack' = WithTop([Top EXCEPT !.pc = "admit"])
            /\ UNCHANGED pc
    /\ UNCHANGED <<schema, calls, probed_types, schema_lock, max_depth, inflight, root, runv>>

\* if !probed.insert(type_name) { return Ok(()) }; the guard is dropped on
\* both paths
RecAdmit ==
    /\ InRec("admit")
    /\ LET r == probed_insert(probed_types, Top.type_name)
       IN  /\ probed_types' = r.set
           /\ IF r.new
              THEN /\ stack' = WithTop([Top EXCEPT !.pc = "c_loop"])
                   /\ UNCHANGED pc
              ELSE /\ stack' = ReturnStack
                   /\ pc' = ReturnPc
    /\ probed_lock' = "free"
    /\ UNCHANGED <<schema, calls, schema_lock, max_depth, inflight, root, runv>>

\* top of the corpus loop: next probe starts with the first context, or the
\* loop ends and fields_to_check is computed
RecLoop ==
    /\ InRec("c_loop")
    /\ stack' = WithTop(
         IF Top.i <= Len(probes)
         THEN [Top EXCEPT !.found = FALSE, !.ctxi = 1, !.pc = "c_ctx"]
         ELSE [Top EXCEPT
                 !.to_check = { f \in Top.discovered_fields :
                                  ~is_likely_scalar(f)
                                  /\ f \notin DOMAIN Top.child_object_types },
                 !.discovered_fields = {}, !.found = FALSE, !.ctxi = 0,
                 !.pc = "k_field"])
    /\ UNCHANGED <<schema, calls, probed_types, schema_lock, probed_lock, max_depth, inflight, pc, root, runv>>

\* for ctx in contexts: send the probe nested in the context
RecCtx ==
    /\ InRec("c_ctx")
    /\ IF Top.ctxi <= Len(Top.contexts)
       THEN /\ inflight' = Request("send_probe",
                                   nested_query(Top.contexts[Top.ctxi], probes[Top.i]))
            /\ stack' = WithTop([Top EXCEPT !.pc = "c_wait"])
       ELSE /\ stack' = WithTop([Top EXCEPT !.i = @ + 1, !.ctxi = 0, !.pc = "c_loop"])
            /\ UNCHANGED inflight
    /\ UNCHANGED <<schema, calls, probed_types, schema_lock, probed_lock, max_depth, pc, root, runv>>

\* match self.client.send_probe(&query).await { Ok(result) => .., Err(_) => {} }:
\* after Err the next context is tried
rec_recv(fr, resp) ==
    IF resp.ok
    THEN [fr EXCEPT !.result = resp.result, !.si = 1, !.pc = "c_sugg"]
    ELSE [fr EXCEPT !.pc = "c_err"]

\* a mutant of rec_probe_err: a failed request ends the context loop
rec_probe_err_break(fr) == [fr EXCEPT !.i = @ + 1, !.ctxi = 0, !.pc = "c_loop"]

\* a mutant of rec_probe_err: the failed request is retried
rec_probe_err_retry(fr) == [fr EXCEPT !.pc = "c_ctx"]

\* the Err(_) => {} arm: the next context is tried
rec_probe_err(fr) == [fr EXCEPT !.ctxi = @ + 1, !.pc = "c_ctx"]

RecErr ==
    /\ InRec("c_err")
    /\ stack' = WithTop(rec_probe_err(Top))
    /\ UNCHANGED <<schema, calls, probed_types, schema_lock, probed_lock, max_depth, inflight, pc, root, runv>>

RecRecv ==
    /\ InRec("c_wait")
    /\ \E resp \in ProbeResponses : stack' = WithTop(rec_recv(Top, resp))
    /\ inflight' = NoRequest
    /\ UNCHANGED <<schema, calls, probed_types, schema_lock, probed_lock, max_depth, pc, root, runv>>

\* a mutant of parent_matches: the parent filter is lost
parent_matches_any(parent, type_name) == TRUE

\* whether a suggestion's parent is the type being probed
parent_matches(parent, type_name) == parent = type_name

\* one suggestion: skipped unless its parent is the probed type, else logged;
\* after the last one the hints are recorded and the context loop breaks if a
\* suggestion was used
RecSuggestion ==
    /\ InRec("c_sugg")
    /\ IF Top.si <= Len(Top.result.suggestions)
       THEN LET suggestion == Top.result.suggestions[Top.si]
                parent == unwrap_or(suggestion.parent_type, Top.type_name)
            IN  IF ~parent_matches(parent, Top.type_name)
                THEN /\ stack' = WithTop([Top EXCEPT !.si = @ + 1])
                     /\ UNCHANGED schema
                ELSE /\ schema_lock = "free"
                     /\ schema' = log_discovery(schema, parent, suggestion.queried_field,
                                                suggestion.suggestions)
                     /\ stack' = WithTop([Top EXCEPT !.fi = 1, !.pc = "c_add_lock"])
       ELSE /\ stack' = WithTop(
                 LET hinted == [Top EXCEPT
                                  !.child_object_types =
                                      record_child_hints(@, Top.result.object_type_hints,
                                                         Top.type_name),
                                  !.result = NoResult, !.si = 0]
                 IN  IF Top.found
                     THEN [hinted EXCEPT !.i = @ + 1, !.ctxi = 0, !.pc = "c_loop"]
                     ELSE [hinted EXCEPT !.ctxi = @ + 1, !.pc = "c_ctx"])
            /\ UNCHANGED schema
    /\ UNCHANGED <<calls, probed_types, schema_lock, probed_lock, max_depth, inflight, pc, root, runv>>

RecAddLock ==
    /\ InRec("c_add_lock")
    /\ IF Top.fi <= Len(Top.result.suggestions[Top.si].suggestions)
       THEN /\ schema_lock = "free"
            /\ schema_lock' = "walker"
            /\ stack' = WithTop([Top EXCEPT !.pc = "c_add"])
       ELSE /\ stack' = WithTop([Top EXCEPT !.found = TRUE, !.si = @ + 1, !.fi = 0,
                                            !.pc = "c_sugg"])
            /\ UNCHANGED schema_lock
    /\ UNCHANGED <<schema, calls, probed_types, probed_lock, max_depth, inflight, pc, root, runv>>

RecAdd ==
    /\ InRec("c_add")
    /\ LET suggestion == Top.result.suggestions[Top.si]
           parent == unwrap_or(suggestion.parent_type, Top.type_name)
           field_name == suggestion.suggestions[Top.fi]
           r == add_field(schema, parent, field_name)
       IN  /\ schema' = r.schema
           /\ stack' = WithTop([Top EXCEPT
                                  !.discovered_fields =
                                      IF r.ret THEN @ \cup {field_name} ELSE @,
                                  !.fi = @ + 1, !.pc = "c_add_lock"])
    /\ schema_lock' = "free"
    /\ UNCHANGED <<calls, probed_types, probed_lock, max_depth, inflight, pc, root, runv>>

\* the re-probe pass: next field of fields_to_check, or on to the short names
RecCheckField ==
    /\ InRec("k_field")
    /\ IF Top.to_check # {}
       THEN \E field_name \in Top.to_check :
              stack' = WithTop([Top EXCEPT !.to_check = @ \ {field_name},
                                           !.cur = field_name, !.ctxi = 1,
                                           !.pc = "k_ctx"])
       ELSE stack' = WithTop([Top EXCEPT !.cur = <<>>, !.ctxi = 0, !.shorti = 1,
                                         !.pc = "b_loop"])
    /\ UNCHANGED <<schema, calls, probed_types, schema_lock, probed_lock, max_depth, inflight, pc, root, runv>>

RecCheckCtx ==
    /\ InRec("k_ctx")
    /\ IF Top.ctxi <= Len(Top.contexts)
       THEN /\ inflight' = Request("send_probe",
                                   nested_query(Top.contexts[Top.ctxi], Top.cur))
            /\ stack' = WithTop([Top EXCEPT !.pc = "k_wait"])
       ELSE /\ stack' = WithTop([Top EXCEPT !.pc = "k_field"])
            /\ UNCHANGED inflight
    /\ UNCHANGED <<schema, calls, probed_types, schema_lock, probed_lock, max_depth, pc, root, runv>>

\* hints for the queried field are recorded; the context loop breaks once the
\* field has a candidate
rec_check_recv(fr, resp) ==
    IF resp.ok
    THEN LET m == record_field_hints(fr.child_object_types,
                                     resp.result.object_type_hints, fr.cur)
         IN  IF fr.cur \in DOMAIN m
             THEN [fr EXCEPT !.child_object_types = m, !.pc = "k_field"]
             ELSE [fr EXCEPT !.child_object_types = m, !.ctxi = @ + 1, !.pc = "k_ctx"]
    ELSE [fr EXCEPT !.pc = "k_err"]

\* the request of the re-probe pass failed: the next context is tried
rec_check_err(fr) == [fr EXCEPT !.ctxi = @ + 1, !.pc = "k_ctx"]

RecCheckErr ==
    /\ InRec("k_err")
    /\ stack' = WithTop(rec_check_err(Top))
    /\ UNCHANGED <<schema, calls, probed_types, schema_lock, probed_lock, max_depth, inflight, pc, root, runv>>

RecCheckRecv ==
    /\ InRec("k_wait")
    /\ \E resp \in ProbeResponses : stack' = WithTop(rec_check_recv(Top, resp))
    /\ inflight' = NoRequest
    /\ UNCHANGED <<schema, calls, probed_types, schema_lock, probed_lock, max_depth, pc, root, runv>>

\* the short-name loop: a name already a field of the type is skipped
RecBrute ==
    /\ InRec("b_loop")
    /\ IF Top.shorti <= Len(SHORT_FIELD_BRUTE)
       THEN LET short_field == SHORT_FIELD_BRUTE[Top.shorti]
                known == /\ Top.type_name \in DOMAIN schema.types
                         /\ short_field \in DOMAIN schema.types[Top.type_name].fields
            IN  /\ schema_lock = "free"
                /\ stack' = WithTop(
                     IF known
                     THEN [Top EXCEPT !.shorti = @ + 1]
                     ELSE [Top EXCEPT !.ctxi = 1, !.pc = "b_ctx"])
       ELSE stack' = WithTop([Top EXCEPT !.shorti = 0,
                                         !.children = Pairs(Top.child_object_types),
                                         !.pc = "ch_loop"])
    /\ UNCHANGED <<schema, calls, probed_types, schema_lock, probed_lock, max_depth, inflight, pc, root, runv>>

RecBruteCtx ==
    /\ InRec("b_ctx")
    /\ IF Top.ctxi <= Len(Top.contexts)
       THEN /\ inflight' = Request("field_exists",
                                   nested_query(Top.contexts[Top.ctxi],
                                                SHORT_FIELD_BRUTE[Top.shorti]))
            /\ stack' = WithTop([Top EXCEPT !.pc = "b_wait"])
       ELSE /\ stack' = WithTop([Top EXCEPT !.ctxi = 0, !.shorti = @ + 1, !.pc = "b_loop"])
            /\ UNCHANGED inflight
    /\ UNCHANGED <<schema, calls, probed_types, schema_lock, probed_lock, max_depth, pc, root, runv>>

\* match self.client.field_exists(..).await { Ok(true) => .., _ => {} }
rec_brute_recv(fr, resp) ==
    IF resp.ok /\ resp.exists
    THEN [fr EXCEPT !.pc = "b_lock"]
    ELSE [fr EXCEPT !.pc = "b_no"]

\* the `_ => {}` arm (Ok(false) or Err): the next context is tried
rec_brute_no(fr) == [fr EXCEPT !.ctxi = @ + 1, !.pc = "b_ctx"]

RecBruteNo ==
    /\ InRec("b_no")
    /\ stack' = WithTop(rec_brute_no(Top))
    /\ UNCHANGED <<schema, calls, probed_types, schema_lock, probed_lock, max_depth, inflight, pc, root, runv>>

RecBruteRecv ==
    /\ InRec("b_wait")
    /\ \E resp \in ExistsResponses(SHORT_FIELD_BRUTE[Top.shorti]) :
        stack' = WithTop(rec_brute_recv(Top, resp))
    /\ inflight' = NoRequest
    /\ UNCHANGED <<schema, calls, probed_types, schema_lock, probed_lock, max_depth, pc, root, runv>>

RecBruteLock ==
    /\ InRec("b_lock")
    /\ schema_lock = "free"
    /\ schema_lock' = "walker"
    /\ stack' = WithTop([Top EXCEPT !.pc = "b_add"])
    /\ UNCHANGED <<schema, calls, probed_types, probed_lock, max_depth, inflight, pc, root, runv>>

\* add_field(type_name, short_field); break leaves the block and drops the guard
RecBruteAdd ==
    /\ InRec("b_add")
    /\ schema' = add_field(schema, Top.type_name, SHORT_FIELD_BRUTE[Top.shorti]).schema
    /\ schema_lock' = "free"
    /\ stack' = WithTop([Top EXCEPT !.ctxi = 0, !.shorti = @ + 1, !.pc = "b_loop"])
    /\ UNCHANGED <<calls, probed_types, probed_lock, max_depth, inflight, pc, root, runv>>

\* for (field_name, child_type) in &child_object_types: set the field's type
\* and recurse at depth + 1 with the extended contexts; after the loop return
RecChildren ==
    /\ InRec("ch_loop")
    /\ IF Top.children # {}
       THEN \E p \in Top.children :
              /\ schema_lock = "free"
              /\ schema' = set_field_type(schema, Top.type_name, p[1], p[2])
              /\ stack' = Append(WithTop([Top EXCEPT !.children = @ \ {p}]),
                                 Frame(p[2], child_contexts(Top.contexts, p[1]),
                                       Top.depth + 1))
              /\ UNCHANGED pc
       ELSE /\ stack' = ReturnStack
            /\ pc' = ReturnPc
            /\ UNCHANGED schema
    /\ UNCHANGED <<calls, probed_types, schema_lock, probed_lock, max_depth, inflight, root, runv>>

(***************************************************************************)
(* The walk                                                                *)
(***************************************************************************)
vars == <<schema, calls, probed_types, schema_lock, probed_lock, max_depth,
          inflight, pc, root, runv, stack>>

Next ==
    \/ RootLoop \/ RootRecv \/ RootErr \/ RootSuggestion \/ RootAddLock \/ RootAdd
    \/ RootCheck \/ RootCheckRecv \/ RootCheckErr
    \/ RootBrute \/ RootBruteRecv \/ RootBruteNo \/ RootBruteLock \/ RootBruteAdd
    \/ RootBruteBare \/ RootBruteBareRecv \/ RootBareErr
    \/ RunSetRoot \/ RunLoop \/ RunFinish
    \/ RecEnter \/ RecAdmit \/ RecLoop \/ RecCtx \/ RecRecv \/ RecErr
    \/ RecSuggestion \/ RecAddLock \/ RecAdd
    \/ RecCheckField \/ RecCheckCtx \/ RecCheckRecv \/ RecCheckErr
    \/ RecBrute \/ RecBruteCtx \/ RecBruteRecv \/ RecBruteNo \/ RecBruteLock
    \/ RecBruteAdd
    \/ RecChildren

Spec == Init /\ [][Next]_vars

\* The walker is one task that the runtime keeps running, and every request
\* ends (with a response, or with Err at the client's timeout)
SpecLive == Spec /\ WF_vars(Next)

(***************************************************************************)
(* SpecModel: any sequence of calls on one ReconstructedSchema             *)
(***************************************************************************)
MaxCalls == 4

ModelTypes == {sQuery, sUser}
ModelFields == {s_user, s_posts, s_status}

\* the walker is not running in SpecModel
wvars == <<probed_types, schema_lock, probed_lock, max_depth, inflight, pc,
           root, runv, stack>>

ModelInit ==
    /\ schema = NewSchema
    /\ calls = <<>>
    /\ probed_types = {}
    /\ schema_lock = "free"
    /\ probed_lock = "free"
    /\ max_depth = 0
    /\ inflight = NoRequest
    /\ pc = "idle"
    /\ root = RootLocals
    /\ runv = RunLocals
    /\ stack = <<>>

ModelAddField ==
    \E t \in ModelTypes, f \in ModelFields :
        /\ Len(calls) < MaxCalls
        /\ LET r == add_field(schema, t, f)
           IN  /\ schema' = r.schema
               /\ calls' = Append(calls, [op |-> "add_field", type_name |-> t,
                                          field_name |-> f, ret |-> r.ret])
        /\ UNCHANGED wvars

ModelSetFieldType ==
    \E t \in ModelTypes, f \in {s_user, s_posts}, c \in {sUser, sPost} :
        /\ Len(calls) < MaxCalls
        /\ schema' = set_field_type(schema, t, f, c)
        /\ calls' = Append(calls, [op |-> "set_field_type", type_name |-> t,
                                   field_name |-> f, ret |-> FALSE, child |-> c])
        /\ UNCHANGED wvars

ModelLogDiscovery ==
    \E t \in ModelTypes, q \in {s_xuser}, d \in {<<s_user>>} :
        /\ Len(calls) < MaxCalls
        /\ schema' = log_discovery(schema, t, q, d)
        /\ calls' = Append(calls, [op |-> "log_discovery", type_name |-> t,
                                   field_name |-> q, ret |-> FALSE,
                                   discovered |-> d])
        /\ UNCHANGED wvars

ModelNext == ModelAddField \/ ModelSetFieldType \/ ModelLogDiscovery

SpecModel == ModelInit /\ [][ModelNext]_vars

\* whether call number i is an add_field call on the pair (t, f)
IsAddOf(i, t, f) ==
    /\ calls[i].op = "add_field"
    /\ calls[i].type_name = t
    /\ calls[i].field_name = f

\* C1: add_field(T, f) returns true on the first call for the pair (T, f) and
\* false on every later call with that pair, whatever set_field_type and
\* log_discovery calls come before, between or after.
C1_AddFieldTrueExactlyOnce ==
    \A i \in 1..Len(calls) :
        calls[i].op = "add_field" =>
            (calls[i].ret <=>
                ~\E j \in 1..(i-1) : IsAddOf(j, calls[i].type_name, calls[i].field_name))

\* C1 witness: add_field(T,f) = true, then set_field_type(T,f,_), then
\* add_field(T,f) = false
C1_Witness ==
    \E i, j, k \in 1..Len(calls) :
        /\ i < j /\ j < k
        /\ IsAddOf(i, sQuery, s_user) /\ calls[i].ret
        /\ calls[j].op = "set_field_type"
        /\ calls[j].type_name = sQuery /\ calls[j].field_name = s_user
        /\ IsAddOf(k, sQuery, s_user) /\ ~calls[k].ret

\* the step is call `op` on the model, recorded as the last entry of calls'
IsCall(op) ==
    /\ Len(calls') = Len(calls) + 1
    /\ calls'[Len(calls')].op = op

\* the fields of type t in schema s (none if the type is unknown)
FieldsOf(s, t) == IF t \in DOMAIN s.types THEN DOMAIN s.types[t].fields ELSE {}

\* C11: add_field(T, f) on a field that exists leaves the whole model as it
\* was; on a new field it changes nothing but this: type T exists afterwards,
\* and f is a field of T with type_name = None; every other type and field,
\* query_type and the discovery log are the same.
C11_AddFieldFrame ==
    [][IsCall("add_field") =>
        LET c == calls'[Len(calls')]
            t == c.type_name
            f == c.field_name
        IN  IF f \in FieldsOf(schema, t)
            THEN schema' = schema
            ELSE /\ schema'.query_type = schema.query_type
                 /\ schema'.discovery_log = schema.discovery_log
                 /\ DOMAIN schema'.types = DOMAIN schema.types \cup {t}
                 /\ \A u \in DOMAIN schema.types \ {t} :
                        schema'.types[u] = schema.types[u]
                 /\ schema'.types[t].name = t
                 /\ DOMAIN schema'.types[t].fields = FieldsOf(schema, t) \cup {f}
                 /\ \A g \in FieldsOf(schema, t) :
                        schema'.types[t].fields[g] = schema.types[t].fields[g]
                 /\ schema'.types[t].fields[f].name = f
                 /\ schema'.types[t].fields[f].type_name = None]_vars

\* C11 witness: the last call was add_field on an existing, typed field of a
\* type that has a second field as well
C11_Witness ==
    /\ calls # <<>>
    /\ LET c == calls[Len(calls)]
       IN  /\ c.op = "add_field" /\ ~c.ret
           /\ c.type_name = sUser /\ c.field_name = s_user
           /\ schema.types[sUser].fields[s_user].type_name # None
           /\ Cardinality(DOMAIN schema.types[sUser].fields) >= 2

\* C12: a field that has a type reference has one in every later state
\* (type_name never goes from Some back to None, and the field stays).
C12_TypeNeverCleared ==
    [][\A t \in DOMAIN schema.types :
        \A f \in DOMAIN schema.types[t].fields :
            schema.types[t].fields[f].type_name # None =>
                /\ f \in FieldsOf(schema', t)
                /\ schema'.types[t].fields[f].type_name # None]_vars

\* C12 witness: a field was typed, then added again, then a log entry was
\* written, and it still has its type
C12_Witness ==
    \E i, j, k \in 1..Len(calls) :
        /\ i < j /\ j < k
        /\ calls[i].op = "set_field_type"
        /\ IsAddOf(j, calls[i].type_name, calls[i].field_name)
        /\ calls[k].op = "log_discovery"
        /\ calls[i].field_name \in FieldsOf(schema, calls[i].type_name)
        /\ schema.types[calls[i].type_name].fields[calls[i].field_name].type_name
              = Some(calls[i].child)

\* C13: is_list of a field is the same in every later state.
C13_IsListFixed ==
    [][\A t \in DOMAIN schema.types :
        \A f \in DOMAIN schema.types[t].fields :
            /\ f \in FieldsOf(schema', t)
            /\ schema'.types[t].fields[f].is_list = schema.types[t].fields[f].is_list]_vars

\* C13 witness: a list-shaped field after set_field_type and a repeated add_field
C13_Witness ==
    \E i, j \in 1..Len(calls) :
        /\ i < j
        /\ calls[i].op = "set_field_type"
        /\ calls[i].type_name = sQuery /\ calls[i].field_name = s_posts
        /\ IsAddOf(j, sQuery, s_posts)
        /\ s_posts \in FieldsOf(schema, sQuery)
        /\ schema.types[sQuery].fields[s_posts].is_list
        /\ schema.types[sQuery].fields[s_posts].type_name # None

\* C15: set_field_type(parent, field, type_name) changes nothing when parent
\* or field is unknown; otherwise the field's type_name becomes
\* Some(type_name) and nothing else changes.
C15_SetFieldTypeFrame ==
    [][IsCall("set_field_type") =>
        LET c == calls'[Len(calls')]
            t == c.type_name
            f == c.field_name
        IN  IF f \notin FieldsOf(schema, t)
            THEN schema' = schema
            ELSE /\ schema'.query_type = schema.query_type
                 /\ schema'.discovery_log = schema.discovery_log
                 /\ DOMAIN schema'.types = DOMAIN schema.types
                 /\ \A u \in DOMAIN schema.types \ {t} :
                        schema'.types[u] = schema.types[u]
                 /\ schema'.types[t].name = schema.types[t].name
                 /\ DOMAIN schema'.types[t].fields = DOMAIN schema.types[t].fields
                 /\ \A g \in DOMAIN schema.types[t].fields \ {f} :
                        schema'.types[t].fields[g] = schema.types[t].fields[g]
                 /\ schema'.types[t].fields[f].name = schema.types[t].fields[f].name
                 /\ schema'.types[t].fields[f].is_list = schema.types[t].fields[f].is_list
                 /\ schema'.types[t].fields[f].type_name = Some(c.child)]_vars

\* C15 witness: set_field_type on a type that was unknown, then on a field of
\* a known type that was unknown, then on a known field whose type it replaced
C15_Witness ==
    /\ Len(calls) = 4
    /\ calls[1].op = "set_field_type" /\ calls[1].type_name = sUser
    /\ IsAddOf(2, sUser, s_user)
    /\ calls[3].op = "set_field_type" /\ calls[3].type_name = sUser
    /\ calls[3].field_name = s_posts
    /\ calls[4].op = "set_field_type" /\ calls[4].type_name = sUser
    /\ calls[4].field_name = s_user /\ calls[4].child = sPost
    /\ DOMAIN schema.types = {sUser}
    /\ DOMAIN schema.types[sUser].fields = {s_user}
    /\ schema.types[sUser].fields[s_user].type_name = Some(sPost)

\* C16: the discovery log is append-only.  A log_discovery call puts exactly
\* its entry at the end, present already or not; add_field and set_field_type
\* leave the log as it is; a step of the walker leaves it as it is or adds one
\* entry at the end.
C16_LogAppendOnly ==
    [][\/ /\ IsCall("log_discovery")
          /\ LET c == calls'[Len(calls')]
             IN  schema'.discovery_log =
                    schema.discovery_log \o
                        <<[parent_type |-> c.type_name,
                           probed_field |-> c.field_name,
                           discovered_fields |-> c.discovered]>>
       \/ /\ ~IsCall("log_discovery")
          /\ schema'.discovery_log = schema.discovery_log
       \* a step of the walker: the old log is a prefix, at most one entry longer
       \/ /\ calls' = calls
          /\ Len(schema'.discovery_log) = Len(schema.discovery_log) + 1
          /\ SubSeq(schema'.discovery_log, 1, Len(schema.discovery_log))
                = schema.discovery_log]_vars

\* C16 witness: the log holds the same entry twice, with another one between
C16_Witness ==
    /\ Len(schema.discovery_log) = 3
    /\ schema.discovery_log[1] = schema.discovery_log[3]
    /\ schema.discovery_log[1] # schema.discovery_log[2]

(***************************************************************************)
(* SpecNames: add_field on field names of every shape                      *)
(***************************************************************************)
MaxNameLen == 3      \* longest generated field name
MaxNameFields == 3   \* number of fields added

s_class == <<"c","l","a","s","s">>

\* the letters the generated field names are made of
NameAlphabet == {"s", "e"}

\* the field names handed to add_field: every string over the alphabet up to
\* the length bound, and the words the heuristic is about
FieldNames ==
    UNION { [1..k -> NameAlphabet] : k \in 1..MaxNameLen }
        \cup {s_user, s_users, s_posts, s_status, s_address, s_success, s_class}

NamesInit ==
    /\ schema = NewSchema
    /\ calls = <<>>
    /\ probed_types = {}
    /\ schema_lock = "free"
    /\ probed_lock = "free"
    /\ max_depth = 0
    /\ inflight = NoRequest
    /\ pc = "names"
    /\ root = RootLocals
    /\ runv = RunLocals
    /\ stack = <<>>

NamesAddField ==
    \E n \in FieldNames :
        /\ Cardinality(FieldsOf(schema, sQuery)) < MaxNameFields
        /\ schema' = add_field(schema, sQuery, n).schema
        /\ UNCHANGED <<calls, wvars>>

NamesNext == NamesAddField

SpecNames == NamesInit /\ [][NamesNext]_vars

\* a name whose last letter is "s", whose letter before that (if any) is not,
\* and that is none of the three singular words
ListShaped(n) ==
    /\ Len(n) >= 1 /\ n[Len(n)] = "s"
    /\ Len(n) >= 2 => n[Len(n) - 1] # "s"
    /\ n \notin {s_address, s_status, s_success}

\* C14: add_field creates a field with is_list = true exactly when its name
\* ends in "s", does not end in "ss" and is none of "address", "status",
\* "success"; "users" is list-shaped, "status" and "address" are not.
C14_IsListHeuristic ==
    \A t \in DOMAIN schema.types :
        \A f \in DOMAIN schema.types[t].fields :
            /\ schema.types[t].fields[f].is_list <=> ListShaped(f)
            /\ f = s_users => schema.types[t].fields[f].is_list
            /\ f \in {s_status, s_address} => ~schema.types[t].fields[f].is_list

\* C14 witness: "users", "status" and "address" are fields
C14_Witness ==
    /\ sQuery \in DOMAIN schema.types
    /\ DOMAIN schema.types[sQuery].fields = {s_users, s_status, s_address}

(***************************************************************************)
(* Text: characters, comparison and searching of strings                   *)
(***************************************************************************)
\* the characters of the modelled texts, in the order of their codes
AsciiChars ==
    <<" ","!","\"","(",")",",","-",".","0","1","2","3","4",
      "5","6","7","8","9",":","?","A","B","C","D","E","F",
      "G","H","I","J","K","L","M","N","O","P","Q","R","S",
      "T","U","V","W","X","Y","Z","[","]","_","a","b","c",
      "d","e","f","g","h","i","j","k","l","m","n","o","p",
      "q","r","s","t","u","v","w","x","y","z","{","|","}">>

UpperChars ==
    <<"A","B","C","D","E","F","G","H","I","J","K","L","M",
      "N","O","P","Q","R","S","T","U","V","W","X","Y","Z">>

LowerChars ==
    <<"a","b","c","d","e","f","g","h","i","j","k","l","m",
      "n","o","p","q","r","s","t","u","v","w","x","y","z">>

\* the position of a character in AsciiChars
char_code(c) == CHOOSE i \in 1..Len(AsciiChars) : AsciiChars[i] = c

\* char::to_lowercase on an ASCII character
char_to_lowercase(c) ==
    IF \E i \in 1..Len(UpperChars) : UpperChars[i] = c
    THEN LowerChars[CHOOSE i \in 1..Len(UpperChars) : UpperChars[i] = c]
    ELSE c

\* str::to_lowercase
to_lowercase(s) == [i \in 1..Len(s) |-> char_to_lowercase(s[i])]

\* str::starts_with
starts_with(s, prefix) ==
    /\ Len(s) >= Len(prefix)
    /\ SubSeq(s, 1, Len(prefix)) = prefix

\* str::contains
contains(s, sub) ==
    \E i \in 1..(Len(s) - Len(sub) + 1) : SubSeq(s, i, i + Len(sub) - 1) = sub

\* a < b in the order of String::cmp (by character code, a proper prefix first)
RECURSIVE str_less(_, _)
str_less(a, b) ==
    IF b = <<>> THEN FALSE
    ELSE IF a = <<>> THEN TRUE
    ELSE IF Head(a) = Head(b) THEN str_less(Tail(a), Tail(b))
    ELSE char_code(Head(a)) < char_code(Head(b))

\* BTreeMap::keys: the keys in ascending order
RECURSIVE btree_keys(_)
btree_keys(ks) ==
    IF ks = {} THEN <<>>
    ELSE LET least == CHOOSE k \in ks : \A o \in ks \ {k} : str_less(k, o)
         IN  <<least>> \o btree_keys(ks \ {least})

\* str::trim_end
RECURSIVE trim_end(_)
trim_end(s) ==
    IF s # <<>> /\ s[Len(s)] \in {" ", "\n", "\t", "\r"}
    THEN trim_end(SubSeq(s, 1, Len(s) - 1))
    ELSE s

(***************************************************************************)
(* to_sdl and infer_scalar_type: src/src/schema.rs                         *)
(***************************************************************************)
s_ID == <<"I","D">>
s_Int == <<"I","n","t">>
s_Boolean == <<"B","o","o","l","e","a","n">>
s_DateTime == <<"D","a","t","e","T","i","m","e">>
s_String == <<"S","t","r","i","n","g">>

\* the names of the second rule of infer_scalar_type
IntWords ==
    { <<"l","i","m","i","t">>, <<"o","f","f","s","e","t">>, <<"q","u","a","n","t","i","t","y">>, <<"t","o","t","a","l">>, <<"a","m","o","u","n","t">>, <<"p","r","i","c","e">>, <<"a","g","e">>, <<"s","i","z","e">> }

\* the names of the third rule
BooleanWords == { <<"a","c","t","i","v","e">>, <<"e","n","a","b","l","e","d">>, <<"d","e","l","e","t","e","d">>, <<"s","u","c","c","e","s","s">> }

\* a mutant of infer_scalar_type: the Int rule is tried before the ID rule
infer_scalar_type_int_first(field_name) ==
    LET lower == to_lowercase(field_name)
    IN  IF contains(lower, <<"c","o","u","n","t">>) \/ lower \in IntWords
        THEN s_Int
        ELSE IF lower = <<"i","d">> \/ ends_with(lower, <<"_","i","d">>) \/ ends_with(lower, <<"i","d">>)
        THEN s_ID
        ELSE IF \/ contains(lower, <<"i","s","_">>)
                \/ starts_with(lower, <<"i","s">>)
                \/ starts_with(lower, <<"h","a","s">>)
                \/ lower \in BooleanWords
        THEN s_Boolean
        ELSE IF /\ contains(lower, <<"a","t">>)
                /\ \/ contains(lower, <<"c","r","e","a","t","e","d">>)
                   \/ contains(lower, <<"u","p","d","a","t","e","d">>)
                   \/ contains(lower, <<"d","e","l","e","t","e","d">>)
        THEN s_DateTime
        ELSE IF lower = <<"d","a","t","e">> \/ lower = <<"t","i","m","e","s","t","a","m","p">>
        THEN s_DateTime
        ELSE s_String

\* infer_scalar_type
infer_scalar_type(field_name) ==
    LET lower == to_lowercase(field_name)
    IN  IF lower = <<"i","d">> \/ ends_with(lower, <<"_","i","d">>) \/ ends_with(lower, <<"i","d">>)
        THEN s_ID
        ELSE IF contains(lower, <<"c","o","u","n","t">>) \/ lower \in IntWords
        THEN s_Int
        ELSE IF \/ contains(lower, <<"i","s","_">>)
                \/ starts_with(lower, <<"i","s">>)
                \/ starts_with(lower, <<"h","a","s">>)
                \/ lower \in BooleanWords
        THEN s_Boolean
        ELSE IF /\ contains(lower, <<"a","t">>)
                /\ \/ contains(lower, <<"c","r","e","a","t","e","d">>)
                   \/ contains(lower, <<"u","p","d","a","t","e","d">>)
                   \/ contains(lower, <<"d","e","l","e","t","e","d">>)
        THEN s_DateTime
        ELSE IF lower = <<"d","a","t","e">> \/ lower = <<"t","i","m","e","s","t","a","m","p">>
        THEN s_DateTime
        ELSE s_String

\* a mutant of type_order: the root type is compared like any other
type_order_plain(a, b, query_type) ==
    IF str_less(a, b) THEN "Less"
    ELSE IF str_less(b, a) THEN "Greater"
    ELSE "Equal"

\* the comparator handed to sort_by in to_sdl
type_order(a, b, query_type) ==
    IF a = query_type THEN "Less"
    ELSE IF b = query_type THEN "Greater"
    ELSE IF str_less(a, b) THEN "Less"
    ELSE IF str_less(b, a) THEN "Greater"
    ELSE "Equal"

\* one step of the stable sort: x goes behind every element it is not Less than
RECURSIVE sort_insert(_, _, _)
sort_insert(sorted, x, query_type) ==
    IF sorted = <<>> THEN <<x>>
    ELSE IF type_order(x, Head(sorted), query_type) = "Less"
    THEN <<x>> \o sorted
    ELSE <<Head(sorted)>> \o sort_insert(Tail(sorted), x, query_type)

\* type_names.sort_by(..): a stable sort
RECURSIVE sort_by(_, _)
sort_by(names, query_type) ==
    IF names = <<>> THEN <<>>
    ELSE sort_insert(sort_by(SubSeq(names, 1, Len(names) - 1), query_type),
                     names[Len(names)], query_type)

\* the type_str of one field
type_str(field) ==
    IF field.type_name # None
    THEN IF field.is_list
         THEN <<"[">> \o field.type_name[1] \o <<"]">>
         ELSE field.type_name[1]
    ELSE infer_scalar_type(field.name)

\* format!("  {}: {}\n", field.name, type_str) for the fields in key order
RECURSIVE sdl_fields(_, _)
sdl_fields(typ, names) ==
    IF names = <<>> THEN <<>>
    ELSE <<" "," ">> \o typ.fields[Head(names)].name \o <<":"," ">>
            \o type_str(typ.fields[Head(names)]) \o <<"\n">>
            \o sdl_fields(typ, Tail(names))

\* the block of each type, in the sorted order
RECURSIVE sdl_types(_, _)
sdl_types(s, names) ==
    IF names = <<>> THEN <<>>
    ELSE <<"t","y","p","e"," ">> \o Head(names) \o <<" ","{","\n">>
            \o sdl_fields(s.types[Head(names)],
                          btree_keys(DOMAIN s.types[Head(names)].fields))
            \o <<"}","\n","\n">>
            \o sdl_types(s, Tail(names))

\* ReconstructedSchema::to_sdl
to_sdl(s) ==
    trim_end(<<"s","c","h","e","m","a"," ","{","\n">> \o <<" "," ","q","u","e","r","y",":"," ">> \o s.query_type \o <<"\n">> \o <<"}","\n","\n">>
             \o sdl_types(s, sort_by(btree_keys(DOMAIN s.types), s.query_type)))

(***************************************************************************)
(* SpecSdl: a schema is built and then rendered by to_sdl                  *)
(***************************************************************************)
MaxSdlFields == 3    \* number of fields in the rendered schema

SdlTypes == {sPost, sQuery, sQueryRoot, sUser}
SdlFields == {s_id, s_user, s_posts}

\* the number of fields of all types of schema s
RECURSIVE count_fields(_, _)
count_fields(s, ts) ==
    IF ts = {} THEN 0
    ELSE LET t == CHOOSE x \in ts : TRUE
         IN  Cardinality(DOMAIN s.types[t].fields) + count_fields(s, ts \ {t})

SdlInit ==
    /\ schema = NewSchema
    /\ calls = <<>>
    /\ probed_types = {}
    /\ schema_lock = "free"
    /\ probed_lock = "free"
    /\ max_depth = 0
    /\ inflight = NoRequest
    /\ pc = "sdl"
    /\ root = RootLocals
    /\ runv = RunLocals
    /\ stack = <<>>

SdlAddField ==
    /\ pc = "sdl"
    /\ count_fields(schema, DOMAIN schema.types) < MaxSdlFields
    /\ \E t \in SdlTypes, f \in SdlFields :
        schema' = add_field(schema, t, f).schema
    /\ UNCHANGED <<calls, wvars>>

SdlSetFieldType ==
    /\ pc = "sdl"
    /\ \E t \in SdlTypes, f \in {s_user, s_posts} :
        schema' = set_field_type(schema, t, f, sUser)
    /\ UNCHANGED <<calls, wvars>>

\* the write of query_type by run
SdlSetQueryType ==
    /\ pc = "sdl"
    /\ \E q \in {sQuery, sQueryRoot, sUser} :
        schema' = [schema EXCEPT !.query_type = q]
    /\ UNCHANGED <<calls, wvars>>

\* let sdl = schema.to_sdl()
SdlRender ==
    /\ pc = "sdl"
    /\ calls' = <<[op |-> "to_sdl", out |-> to_sdl(schema)]>>
    /\ pc' = "sdl_done"
    /\ UNCHANGED <<schema, probed_types, schema_lock, probed_lock, max_depth,
                   inflight, root, runv, stack>>

SdlNext == SdlAddField \/ SdlSetFieldType \/ SdlSetQueryType \/ SdlRender

SpecSdl == SdlInit /\ [][SdlNext]_vars

\* the lines of a text, split at "\n": line k lies between the newline
\* number k - 1 and the newline number k
split_lines(text) ==
    LET nl == { i \in 1..Len(text) : text[i] = "\n" }
        nth(k) == IF k = 0 THEN 0
                  ELSE IF k > Cardinality(nl) THEN Len(text) + 1
                  ELSE CHOOSE p \in nl : Cardinality({ q \in nl : q < p }) = k - 1
    IN  [k \in 1..(Cardinality(nl) + 1) |-> SubSeq(text, nth(k - 1) + 1, nth(k) - 1)]

\* the rendered text and its lines, once to_sdl has returned
SdlOut == calls[1].out
SdlLines == split_lines(SdlOut)

IsTypeHeader(line) == starts_with(line, <<"t","y","p","e"," ">>) /\ ends_with(line, <<" ","{">>)

\* the type names of the header lines `type T {`, in the order of the text
RECURSIVE header_names(_)
header_names(lines) ==
    IF lines = <<>> THEN <<>>
    ELSE IF IsTypeHeader(Head(lines))
    THEN <<SubSeq(Head(lines), 6, Len(Head(lines)) - 2)>> \o header_names(Tail(lines))
    ELSE header_names(Tail(lines))

\* C17: the text of to_sdl starts with the schema block naming query_type,
\* also for an empty model; then comes one block per type, each type once: the
\* block of query_type first when that type exists, the others in ascending
\* order of their names.
C17_SdlTypeOrder ==
    pc = "sdl_done" =>
        LET hs == header_names(SdlLines)
            q == schema.query_type
        IN  /\ Len(SdlLines) >= 3
            /\ SdlLines[1] = <<"s","c","h","e","m","a"," ","{">>
            /\ SdlLines[2] = <<" "," ","q","u","e","r","y",":"," ">> \o q
            /\ SdlLines[3] = <<"}">>
            /\ Len(hs) = Cardinality(DOMAIN schema.types)
            /\ { hs[i] : i \in 1..Len(hs) } = DOMAIN schema.types
            /\ q \in DOMAIN schema.types => hs[1] = q
            /\ \A i, j \in 1..Len(hs) :
                  (i < j /\ hs[i] # q /\ hs[j] # q) => str_less(hs[i], hs[j])

\* C17 witness: three types were rendered, the root type being neither the
\* least nor the greatest name; "Query" is a proper prefix of "QueryRoot"
C17_Witness ==
    /\ pc = "sdl_done"
    /\ schema.query_type = sQueryRoot
    /\ DOMAIN schema.types = {sPost, sQuery, sQueryRoot}
    /\ header_names(SdlLines) = <<sQueryRoot, sPost, sQuery>>

\* the lines of the block of type t: from its header to the closing brace
BlockLines(lines, t) ==
    LET h == CHOOSE i \in 1..Len(lines) : lines[i] = <<"t","y","p","e"," ">> \o t \o <<" ","{">>
        e == CHOOSE i \in (h + 1)..Len(lines) :
                /\ lines[i] = <<"}">>
                /\ \A k \in (h + 1)..(i - 1) : lines[k] # <<"}">>
    IN  { lines[k] : k \in (h + 1)..(e - 1) }

\* the type name the claim expects for a field: its type reference, or the
\* scalar inferred from its name
RenderedType(field) ==
    IF field.type_name # None THEN field.type_name[1]
    ELSE infer_scalar_type(field.name)

\* C18: in the text of to_sdl a field with is_list = true is the line
\* `name: [Type]` and a field with is_list = false the line `name: Type`, for
\* typed fields and for untyped ones alike.
C18_ListFieldsBracketed ==
    pc = "sdl_done" =>
        \A t \in DOMAIN schema.types :
            \A f \in DOMAIN schema.types[t].fields :
                LET field == schema.types[t].fields[f]
                    shown == IF field.is_list
                             THEN <<"[">> \o RenderedType(field) \o <<"]">>
                             ELSE RenderedType(field)
                IN  (<<" "," ">> \o field.name \o <<":"," ">> \o shown) \in BlockLines(SdlLines, t)

(***************************************************************************)
(* SpecInfer: infer_scalar_type on field names made of naming tokens       *)
(***************************************************************************)
MaxInferTokens == 2   \* number of tokens a generated field name is made of

\* the tokens the generated field names are made of
InferTokens ==
    { <<"i","d">>, <<"I","d">>, <<"_","i","d">>, <<"i","s">>, <<"I","s">>, <<"i","s","_">>, <<"h","a","s">>, <<"c","o","u","n","t">>, <<"C","o","u","n","t">>, <<"a","t">>, <<"A","t">>,
      <<"c","r","e","a","t","e","d">>, <<"u","p","d","a","t","e","d">>, <<"d","e","l","e","t","e","d">>, <<"l","i","m","i","t">>, <<"t","o","t","a","l">>, <<"s","i","z","e">>, <<"a","c","t","i","v","e">>,
      <<"s","u","c","c","e","s","s">>, <<"d","a","t","e">>, <<"t","i","m","e","s","t","a","m","p">>, <<"n","a","m","e">>, <<"u","s","e","r">>, <<"V","a","l","i","d">> }

\* the concatenation of a sequence of strings
RECURSIVE concat(_)
concat(ss) == IF ss = <<>> THEN <<>> ELSE Head(ss) \o concat(Tail(ss))

\* the field names handed to infer_scalar_type
InferNames ==
    { concat(ts) : ts \in UNION { [1..k -> InferTokens] : k \in 1..MaxInferTokens } }

InferInit ==
    /\ schema = NewSchema
    /\ calls = <<>>
    /\ probed_types = {}
    /\ schema_lock = "free"
    /\ probed_lock = "free"
    /\ max_depth = 0
    /\ inflight = NoRequest
    /\ pc = "infer"
    /\ root = RootLocals
    /\ runv = RunLocals
    /\ stack = <<>>

InferCall ==
    /\ pc = "infer"
    /\ \E n \in InferNames :
        calls' = <<[op |-> "infer_scalar_type", name |-> n,
                    out |-> infer_scalar_type(n)]>>
    /\ pc' = "infer_done"
    /\ UNCHANGED <<schema, probed_types, schema_lock, probed_lock, max_depth,
                   inflight, root, runv, stack>>

InferNext == InferCall

SpecInfer == InferInit /\ [][InferNext]_vars

\* the rules as the claim states them, on the lowercased name
RuleID(lower) == lower = <<"i","d">> \/ ends_with(lower, <<"i","d">>)
RuleInt(lower) ==
    \/ contains(lower, <<"c","o","u","n","t">>)
    \/ lower \in { <<"l","i","m","i","t">>, <<"o","f","f","s","e","t">>, <<"q","u","a","n","t","i","t","y">>, <<"t","o","t","a","l">>, <<"a","m","o","u","n","t">>, <<"p","r","i","c","e">>,
                   <<"a","g","e">>, <<"s","i","z","e">> }
RuleBoolean(lower) ==
    \/ starts_with(lower, <<"i","s">>) \/ starts_with(lower, <<"h","a","s">>)
    \/ contains(lower, <<"i","s","_">>)
    \/ lower \in { <<"a","c","t","i","v","e">>, <<"e","n","a","b","l","e","d">>, <<"d","e","l","e","t","e","d">>, <<"s","u","c","c","e","s","s">> }
RuleDateTime(lower) ==
    \/ /\ contains(lower, <<"a","t">>)
       /\ \/ contains(lower, <<"c","r","e","a","t","e","d">>)
          \/ contains(lower, <<"u","p","d","a","t","e","d">>)
          \/ contains(lower, <<"d","e","l","e","t","e","d">>)
    \/ lower \in { <<"d","a","t","e">>, <<"t","i","m","e","s","t","a","m","p">> }

\* C19: infer_scalar_type returns the result of the first rule that matches
\* the lowercased name, in the order ID, Int, Boolean, DateTime, and String
\* when none matches; the result is one of the five names.
C19_InferFirstRuleWins ==
    pc = "infer_done" =>
        LET lower == to_lowercase(calls[1].name)
            out == calls[1].out
        IN  /\ out \in {s_ID, s_Int, s_Boolean, s_DateTime, s_String}
            /\ RuleID(lower) => out = s_ID
            /\ (~RuleID(lower) /\ RuleInt(lower)) => out = s_Int
            /\ (~RuleID(lower) /\ ~RuleInt(lower) /\ RuleBoolean(lower))
                  => out = s_Boolean
            /\ (~RuleID(lower) /\ ~RuleInt(lower) /\ ~RuleBoolean(lower)
                  /\ RuleDateTime(lower)) => out = s_DateTime
            /\ (~RuleID(lower) /\ ~RuleInt(lower) /\ ~RuleBoolean(lower)
                  /\ ~RuleDateTime(lower)) => out = s_String

\* C19 witness: "CountId" contains "count" and ends with "id": the ID rule won
C19_Witness ==
    /\ pc = "infer_done"
    /\ calls[1].name = <<"C","o","u","n","t","I","d">>
    /\ calls[1].out = s_ID

(***************************************************************************)
(* The extractor: parse_probe_response of src/src/client.rs                *)
(***************************************************************************)
\* the least element of a non-empty set of positions
least(ps) == CHOOSE p \in ps : \A o \in ps : p <= o

\* whether the literal pat stands at position i of text
at(text, i, pat) ==
    /\ i + Len(pat) - 1 <= Len(text)
    /\ SubSeq(text, i, i + Len(pat) - 1) = pat

\* the positions from `from` on where character c stands
positions(text, c, from) == { p \in from..Len(text) : text[p] = c }

NoMatch == [ok |-> FALSE]

\* SUGGESTION_RE tried at start position i:
\*   (?:Cannot query|Unknown) field "([^"]+)" on type "([^"]+)".*?Did you mean ([^?]+)\?
\* [^"]+ followed by a quote can only be the run up to the next quote; the
\* lazy .*? (no newline) stops at the first "Did you mean " after which a
\* non-empty run without "?" is closed by a "?"
SUGGESTION_RE_at(text, i) ==
    LET head == IF at(text, i, <<"C","a","n","n","o","t"," ","q","u","e","r","y">>) THEN Len(<<"C","a","n","n","o","t"," ","q","u","e","r","y">>)
                ELSE IF at(text, i, <<"U","n","k","n","o","w","n">>) THEN Len(<<"U","n","k","n","o","w","n">>)
                ELSE 0
        k1 == i + head + Len(<<" ","f","i","e","l","d"," ","\"">>)
    IN  IF head = 0 \/ ~at(text, i + head, <<" ","f","i","e","l","d"," ","\"">>) THEN NoMatch
        ELSE IF positions(text, "\"", k1) = {} THEN NoMatch
        ELSE LET q1 == least(positions(text, "\"", k1))
                 k2 == q1 + Len(<<"\""," ","o","n"," ","t","y","p","e"," ","\"">>)
             IN  IF q1 = k1 \/ ~at(text, q1, <<"\""," ","o","n"," ","t","y","p","e"," ","\"">>) THEN NoMatch
                 ELSE IF positions(text, "\"", k2) = {} THEN NoMatch
                 ELSE LET q2 == least(positions(text, "\"", k2))
                          ds == { d \in (q2 + 1)..Len(text) :
                                    /\ at(text, d, <<"D","i","d"," ","y","o","u"," ","m","e","a","n"," ">>)
                                    /\ positions(SubSeq(text, q2 + 1, d - 1), "\n", 1) = {}
                                    /\ positions(text, "?", d + Len(<<"D","i","d"," ","y","o","u"," ","m","e","a","n"," ">>)) # {}
                                    /\ least(positions(text, "?", d + Len(<<"D","i","d"," ","y","o","u"," ","m","e","a","n"," ">>)))
                                          > d + Len(<<"D","i","d"," ","y","o","u"," ","m","e","a","n"," ">>) }
                      IN  IF q2 = k2 \/ ds = {} THEN NoMatch
                          ELSE LET e == least(ds) + Len(<<"D","i","d"," ","y","o","u"," ","m","e","a","n"," ">>)
                               IN  [ok |-> TRUE,
                                    g1 |-> SubSeq(text, k1, q1 - 1),
                                    g2 |-> SubSeq(text, k2, q2 - 1),
                                    g3 |-> SubSeq(text, e, least(positions(text, "?", e)) - 1)]

\* SUGGESTION_RE.captures(message): the leftmost match
SUGGESTION_RE_captures(text) ==
    LET starts == { i \in 1..Len(text) : SUGGESTION_RE_at(text, i).ok }
    IN  IF starts = {} THEN NoMatch ELSE SUGGESTION_RE_at(text, least(starts))

\* FIELD_NAME_RE.captures_iter(s), the regex being "([^"]+)": the successive
\* matches from left to right, none overlapping the one before
RECURSIVE FIELD_NAME_RE_captures_iter(_, _)
FIELD_NAME_RE_captures_iter(text, from) ==
    LET opens == { p \in positions(text, "\"", from) :
                     /\ p + 1 <= Len(text) /\ text[p + 1] # "\""
                     /\ positions(text, "\"", p + 2) # {} }
    IN  IF opens = {} THEN <<>>
        ELSE LET p == least(opens)
                 c == least(positions(text, "\"", p + 2))
             IN  <<SubSeq(text, p + 1, c - 1)>>
                    \o FIELD_NAME_RE_captures_iter(text, c + 1)

\* a mutant of not_introspection: no name is filtered
not_introspection_all(name) == TRUE

\* .filter(|s| !s.starts_with("__"))
not_introspection(name) == ~starts_with(name, <<"_","_">>)

\* the filter applied to a list of names
RECURSIVE filter_names(_)
filter_names(names) ==
    IF names = <<>> THEN <<>>
    ELSE (IF not_introspection(Head(names)) THEN <<Head(names)>> ELSE <<>>)
            \o filter_names(Tail(names))

\* SUBFIELD_RE tried at start position i:
\*   [Ff]ield "([^"]+)" of type "([^"]+)".*must have a selection of subfields
SUBFIELD_RE_at(text, i) ==
    LET k1 == i + Len(<<"F","i","e","l","d"," ","\"">>)
    IN  IF ~(at(text, i, <<"F","i","e","l","d"," ","\"">>) \/ at(text, i, <<"f","i","e","l","d"," ","\"">>)) THEN NoMatch
        ELSE IF positions(text, "\"", k1) = {} THEN NoMatch
        ELSE LET q1 == least(positions(text, "\"", k1))
                 k2 == q1 + Len(<<"\""," ","o","f"," ","t","y","p","e"," ","\"">>)
             IN  IF q1 = k1 \/ ~at(text, q1, <<"\""," ","o","f"," ","t","y","p","e"," ","\"">>) THEN NoMatch
                 ELSE IF positions(text, "\"", k2) = {} THEN NoMatch
                 ELSE LET q2 == least(positions(text, "\"", k2))
                      IN  IF \/ q2 = k2
                             \/ ~\E d \in (q2 + 1)..Len(text) :
                                   /\ at(text, d, <<"m","u","s","t"," ","h","a","v","e"," ","a"," ","s","e","l","e","c","t","i","o","n"," ","o","f"," ","s","u","b","f","i","e","l","d","s">>)
                                   /\ positions(SubSeq(text, q2 + 1, d - 1), "\n", 1) = {}
                          THEN NoMatch
                          ELSE [ok |-> TRUE,
                                g1 |-> SubSeq(text, k1, q1 - 1),
                                g2 |-> SubSeq(text, k2, q2 - 1)]

\* SUBFIELD_RE.captures(message): the leftmost match
SUBFIELD_RE_captures(text) ==
    LET starts == { i \in 1..Len(text) : SUBFIELD_RE_at(text, i).ok }
    IN  IF starts = {} THEN NoMatch ELSE SUBFIELD_RE_at(text, least(starts))

\* a mutant of parse_error: the parent type is taken from the queried field
parse_error_parent_swapped(result, message) ==
    LET caps == SUGGESTION_RE_captures(message)
        suggestions == IF caps.ok
                       THEN filter_names(FIELD_NAME_RE_captures_iter(caps.g3, 1))
                       ELSE <<>>
    IN  [suggestions |->
            IF caps.ok /\ suggestions # <<>>
            THEN Append(result.suggestions,
                        [queried_field |-> caps.g2, suggestions |-> suggestions,
                         parent_type |-> Some(caps.g1)])
            ELSE result.suggestions,
         object_type_hints |-> result.object_type_hints]

\* a mutant of parse_error: the two names of a hint are exchanged
parse_error_hint_swapped(result, message) ==
    LET caps == SUGGESTION_RE_captures(message)
        suggestions == IF caps.ok
                       THEN filter_names(FIELD_NAME_RE_captures_iter(caps.g3, 1))
                       ELSE <<>>
        sub == SUBFIELD_RE_captures(message)
    IN  [suggestions |->
            IF caps.ok /\ suggestions # <<>>
            THEN Append(result.suggestions,
                        [queried_field |-> caps.g1, suggestions |-> suggestions,
                         parent_type |-> Some(caps.g2)])
            ELSE result.suggestions,
         object_type_hints |->
            IF sub.ok
            THEN Append(result.object_type_hints,
                        [field_name |-> sub.g2, type_name |-> sub.g1])
            ELSE result.object_type_hints]

\* a mutant of parse_error: the subfield shape is tried only on a message
\* that gave no suggestion fact
parse_error_exclusive(result, message) ==
    LET caps == SUGGESTION_RE_captures(message)
        suggestions == IF caps.ok
                       THEN filter_names(FIELD_NAME_RE_captures_iter(caps.g3, 1))
                       ELSE <<>>
        sub == SUBFIELD_RE_captures(message)
    IN  [suggestions |->
            IF caps.ok /\ suggestions # <<>>
            THEN Append(result.suggestions,
                        [queried_field |-> caps.g1, suggestions |-> suggestions,
                         parent_type |-> Some(caps.g2)])
            ELSE result.suggestions,
         object_type_hints |->
            IF sub.ok /\ ~(caps.ok /\ suggestions # <<>>)
            THEN Append(result.object_type_hints,
                        [field_name |-> sub.g1, type_name |-> sub.g2])
            ELSE result.object_type_hints]

\* the body of the loop of parse_probe_response for one error message
parse_error(result, message) ==
    LET caps == SUGGESTION_RE_captures(message)
        suggestions == IF caps.ok
                       THEN filter_names(FIELD_NAME_RE_captures_iter(caps.g3, 1))
                       ELSE <<>>
        sub == SUBFIELD_RE_captures(message)
    IN  [suggestions |->
            IF caps.ok /\ suggestions # <<>>
            THEN Append(result.suggestions,
                        [queried_field |-> caps.g1, suggestions |-> suggestions,
                         parent_type |-> Some(caps.g2)])
            ELSE result.suggestions,
         object_type_hints |->
            IF sub.ok
            THEN Append(result.object_type_hints,
                        [field_name |-> sub.g1, type_name |-> sub.g2])
            ELSE result.object_type_hints]

\* parse_probe_response(errors): the messages are handled in list order
RECURSIVE parse_messages(_, _)
parse_messages(result, messages) ==
    IF messages = <<>> THEN result
    ELSE parse_messages(parse_error(result, Head(messages)), Tail(messages))

parse_probe_response(messages) == parse_messages(NoResult, messages)

(***************************************************************************)
(* SpecParse: parse_probe_response on lists of error messages              *)
(***************************************************************************)
MaxErrors == 2    \* number of error messages in one response

s_users_ == <<"u","s","e","r","s">>
s_name == <<"n","a","m","e">>
s_email == <<"e","m","a","i","l">>
s_role == <<"r","o","l","e">>
s_xname == <<"x","n","a","m","e">>
s_xtype == <<"x","t","y","p","e">>
s__type == <<"_","_","t","y","p","e">>
s__schema == <<"_","_","s","c","h","e","m","a">>

\* "a" / "a" or "b" / "a", "b", or "c": the way servers list suggestions
RECURSIVE quoted_list(_)
quoted_list(names) ==
    IF Len(names) = 1 THEN <<"\"">> \o names[1] \o <<"\"">>
    ELSE IF Len(names) = 2
    THEN <<"\"">> \o names[1] \o <<"\""," ","o","r"," ","\"">> \o names[2] \o <<"\"">>
    ELSE <<"\"">> \o names[1] \o <<"\"",","," ">>
            \o (IF Len(names) = 3
                THEN <<"\"">> \o names[2] \o <<"\"",","," ","o","r"," ","\"">> \o names[3] \o <<"\"">>
                ELSE quoted_list(Tail(names)))

\* the text of a message of the suggestion shape
suggestion_message(wording, q, t, names) ==
    wording \o <<" ","f","i","e","l","d"," ","\"">> \o q \o <<"\""," ","o","n"," ","t","y","p","e"," ","\"">> \o t \o <<"\"","."," ","D","i","d"," ","y","o","u"," ","m","e","a","n"," ">>
        \o quoted_list(names) \o <<"?">>

\* the text of a message of the subfield shape
subfield_message(f, t) ==
    <<"F","i","e","l","d"," ","\"">> \o f \o <<"\""," ","o","f"," ","t","y","p","e"," ","\"">> \o t \o <<"\""," ","m","u","s","t"," ","h","a","v","e"," ","a"," ","s","e","l","e","c","t","i","o","n"," ","o","f"," ","s","u","b","f","i","e","l","d","s">>

\* what a server error says: a suggestion, a subfield hint, or neither
SuggestionErrors ==
    { [kind |-> "suggestion", wording |-> w, q |-> d[1], t |-> d[2], names |-> d[3]] :
        w \in { <<"C","a","n","n","o","t"," ","q","u","e","r","y">>, <<"U","n","k","n","o","w","n">> },
        d \in { <<s_xuser, sQuery, <<s_user, s_users_>> >>,
                <<s_xuser, sQueryRoot, <<s_user>> >>,
                <<s_xname, sUser, <<s_name, s_email, s_role>> >>,
                <<s_xtype, sQueryRoot, <<s__type, s_user>> >>,
                <<s_xuser, sUser, <<s_user, s__type, s_users_>> >>,
                <<s_xtype, sQuery, <<s__schema, s__type>> >> } }

\* a message of both shapes: a suggestion sentence, then a subfield sentence
BothErrors ==
    { [kind |-> "both", wording |-> <<"C","a","n","n","o","t"," ","q","u","e","r","y">>, q |-> s_xuser, t |-> sQuery,
       names |-> <<s_user>>, f |-> s_user, ht |-> sUser],
      [kind |-> "both", wording |-> <<"U","n","k","n","o","w","n">>, q |-> s_xtype, t |-> sQuery,
       names |-> <<s__type>>, f |-> s_posts, ht |-> sPost] }

\* a message with two suggestion sentences; q, t, names are those of the first
DoubleErrors ==
    { [kind |-> "double", wording |-> <<"C","a","n","n","o","t"," ","q","u","e","r","y">>, q |-> s_xuser, t |-> sQuery,
       names |-> <<s_user>>, q2 |-> s_xname, t2 |-> sUser, names2 |-> <<s_name>>] }

ServerErrors ==
    SuggestionErrors
        \cup BothErrors
        \cup DoubleErrors
        \cup { [kind |-> "subfield", f |-> s_user, t |-> sUser],
               [kind |-> "subfield", f |-> s_posts, t |-> sPost],
               [kind |-> "other"] }

\* GraphQLError.message of a server error
message_of(e) ==
    IF e.kind = "suggestion" THEN suggestion_message(e.wording, e.q, e.t, e.names)
    ELSE IF e.kind = "subfield" THEN subfield_message(e.f, e.t)
    ELSE IF e.kind = "both"
    THEN suggestion_message(e.wording, e.q, e.t, e.names) \o <<" ">>
            \o subfield_message(e.f, e.ht)
    ELSE IF e.kind = "double"
    THEN suggestion_message(e.wording, e.q, e.t, e.names) \o <<" ">>
            \o suggestion_message(e.wording, e.q2, e.t2, e.names2)
    ELSE <<"S","y","n","t","a","x"," ","E","r","r","o","r",":"," ","U","n","e","x","p","e","c","t","e","d"," ","N","a","m","e"," ","\"","x","\"",".">>

ParseInit ==
    /\ schema = NewSchema
    /\ calls = <<>>
    /\ probed_types = {}
    /\ schema_lock = "free"
    /\ probed_lock = "free"
    /\ max_depth = 0
    /\ inflight = NoRequest
    /\ pc = "parse"
    /\ root = RootLocals
    /\ runv = RunLocals
    /\ stack = <<>>

\* parse_probe_response(&errors) for a response with some errors
ParseCall ==
    /\ pc = "parse"
    /\ \E es \in UNION { [1..k -> ServerErrors] : k \in 1..MaxErrors } :
        calls' = <<[op |-> "parse_probe_response", errors |-> es,
                    out |-> parse_probe_response([i \in 1..Len(es) |-> message_of(es[i])])]>>
    /\ pc' = "parse_done"
    /\ UNCHANGED <<schema, probed_types, schema_lock, probed_lock, max_depth,
                   inflight, root, runv, stack>>

ParseNext == ParseCall

SpecParse == ParseInit /\ [][ParseNext]_vars

\* the kinds of error whose message has a suggestion sentence
SuggestionKinds == {"suggestion", "both", "double"}

\* the kinds of error whose message has a subfield sentence
HintKinds == {"subfield", "both"}

\* the errors of the suggestion shape among es, in list order
RECURSIVE suggestion_errors(_)
suggestion_errors(es) ==
    IF es = <<>> THEN <<>>
    ELSE (IF Head(es).kind \in SuggestionKinds THEN <<Head(es)>> ELSE <<>>)
            \o suggestion_errors(Tail(es))

\* the names of a list that do not start with "__", in order
RECURSIVE without_introspection(_)
without_introspection(names) ==
    IF names = <<>> THEN <<>>
    ELSE (IF Len(Head(names)) >= 2 /\ Head(names)[1] = "_" /\ Head(names)[2] = "_"
          THEN <<>> ELSE <<Head(names)>>)
            \o without_introspection(Tail(names))

\* the suggestion errors that keep a name after the "__" names are removed
RECURSIVE kept_suggestion_errors(_)
kept_suggestion_errors(es) ==
    IF es = <<>> THEN <<>>
    ELSE (IF Head(es).kind \in SuggestionKinds
             /\ without_introspection(Head(es).names) # <<>>
          THEN <<Head(es)>> ELSE <<>>)
            \o kept_suggestion_errors(Tail(es))

\* C20 as stated: every message of the suggestion shape gives exactly one
\* suggestion fact, with the queried field and the parent type of its first
\* clause and all the quoted names of its "Did you mean" clause, in order.
C20_OneFactPerSuggestionMessage ==
    pc = "parse_done" =>
        LET ms == suggestion_errors(calls[1].errors)
            facts == calls[1].out.suggestions
        IN  /\ Len(facts) = Len(ms)
            /\ \A i \in 1..Len(ms) :
                  facts[i] = [queried_field |-> ms[i].q,
                              suggestions |-> ms[i].names,
                              parent_type |-> Some(ms[i].t)]

\* C20 amended: every message of the suggestion shape in which a quoted name
\* does not start with "__" gives exactly one suggestion fact, with the
\* queried field and the parent type of its first clause and the quoted names
\* that do not start with "__", in order; a message whose names all start with
\* "__" gives none.
C20_OneFactPerKeptSuggestionMessage ==
    pc = "parse_done" =>
        LET ms == kept_suggestion_errors(calls[1].errors)
            facts == calls[1].out.suggestions
        IN  /\ Len(facts) = Len(ms)
            /\ \A i \in 1..Len(ms) :
                  facts[i] = [queried_field |-> ms[i].q,
                              suggestions |-> without_introspection(ms[i].names),
                              parent_type |-> Some(ms[i].t)]

\* C20 witness: the xuser/Query message in the "Cannot query" wording, then a
\* message in the "Unknown" wording, parsed to two facts
C20_Witness ==
    /\ pc = "parse_done"
    /\ Len(calls[1].errors) = 2
    /\ calls[1].errors[1] =
          [kind |-> "suggestion", wording |-> <<"C","a","n","n","o","t"," ","q","u","e","r","y">>, q |-> s_xuser,
           t |-> sQuery, names |-> <<s_user, s_users_>>]
    /\ calls[1].errors[2].kind = "suggestion"
    /\ calls[1].errors[2].wording = <<"U","n","k","n","o","w","n">>
    /\ calls[1].errors[2].names = <<s_name, s_email, s_role>>
    /\ Len(calls[1].out.suggestions) = 2
    /\ calls[1].out.suggestions[1] =
          [queried_field |-> s_xuser, suggestions |-> <<s_user, s_users_>>,
           parent_type |-> Some(sQuery)]

\* the result of the one parse_probe_response call
ParseOut == calls[1].out

\* the errors handed to the one parse_probe_response call
ParseErrors == calls[1].errors

\* whether a name starts with "__"
IsIntrospectionName(name) == Len(name) >= 2 /\ name[1] = "_" /\ name[2] = "_"

\* C21: no suggestion list of a fact holds a name starting with "__" and none
\* is empty; the names that do not start with "__" keep their order; a message
\* whose suggested names all start with "__" gives no suggestion fact.
C21_IntrospectionNamesRemoved ==
    pc = "parse_done" =>
        /\ \A i \in 1..Len(ParseOut.suggestions) :
              /\ ParseOut.suggestions[i].suggestions # <<>>
              /\ \A j \in 1..Len(ParseOut.suggestions[i].suggestions) :
                    ~IsIntrospectionName(ParseOut.suggestions[i].suggestions[j])
        /\ Len(ParseErrors) = 1 /\ ParseErrors[1].kind \in SuggestionKinds =>
              IF \A j \in 1..Len(ParseErrors[1].names) :
                    IsIntrospectionName(ParseErrors[1].names[j])
              THEN ParseOut.suggestions = <<>>
              ELSE /\ Len(ParseOut.suggestions) = 1
                   /\ ParseOut.suggestions[1].suggestions
                         = without_introspection(ParseErrors[1].names)

\* C21 witness: a message naming user, __type, users gave [user, users], and
\* a message naming only "__" names gave no fact
C21_Witness ==
    /\ pc = "parse_done"
    /\ Len(ParseErrors) = 2
    /\ ParseErrors[1].kind = "suggestion"
    /\ ParseErrors[1].names = <<s__schema, s__type>>
    /\ ParseErrors[2].kind = "suggestion"
    /\ ParseErrors[2].names = <<s_user, s__type, s_users_>>
    /\ Len(ParseOut.suggestions) = 1
    /\ ParseOut.suggestions[1].suggestions = <<s_user, s_users_>>

\* the hint a message with a subfield sentence speaks of
hint_of(e) ==
    IF e.kind = "subfield" THEN [field_name |-> e.f, type_name |-> e.t]
    ELSE [field_name |-> e.f, type_name |-> e.ht]

\* C22: a response made of messages of the subfield shape only gives one
\* object-type hint {field_name: F, type_name: T} per message and no
\* suggestion fact.
C22_SubfieldHint ==
    pc = "parse_done" /\ (\A i \in 1..Len(ParseErrors) : ParseErrors[i].kind = "subfield") =>
        /\ ParseOut.suggestions = <<>>
        /\ ParseOut.object_type_hints
              = [i \in 1..Len(ParseErrors) |-> hint_of(ParseErrors[i])]

\* C22 witness: the one message Field "user" of type "User" ... gave the hint
\* {user, User}
C22_Witness ==
    /\ pc = "parse_done"
    /\ ParseErrors = <<[kind |-> "subfield", f |-> s_user, t |-> sUser]>>
    /\ ParseOut.object_type_hints = <<[field_name |-> s_user, type_name |-> sUser]>>
    /\ ParseOut.suggestions = <<>>

\* the errors with a subfield sentence among es, in list order
RECURSIVE hint_errors(_)
hint_errors(es) ==
    IF es = <<>> THEN <<>>
    ELSE (IF Head(es).kind \in HintKinds THEN <<Head(es)>> ELSE <<>>)
            \o hint_errors(Tail(es))

is_lowercase(c) == \E i \in 1..Len(LowerChars) : LowerChars[i] = c
is_uppercase(c) == \E i \in 1..Len(UpperChars) : UpperChars[i] = c

\* char::to_uppercase on an ASCII character
char_to_uppercase(c) ==
    IF is_lowercase(c)
    THEN UpperChars[CHOOSE i \in 1..Len(LowerChars) : LowerChars[i] = c]
    ELSE c

\* swapped.swap(0, 1) on the characters of a word of two or more characters
swap_first_two(word) ==
    [i \in 1..Len(word) |-> IF i = 1 THEN word[2] ELSE IF i = 2 THEN word[1] ELSE word[i]]

\* a mutant of generate_mutations: the last character is dropped from a word
\* of two characters too
generate_mutations_drop_short(word) ==
    <<<<"x">> \o word>>
    \o (IF Len(word) >= 2 THEN <<SubSeq(word, 1, Len(word) - 1)>> ELSE <<>>)
    \o (IF Len(word) >= 2 /\ swap_first_two(word) # word
        THEN <<swap_first_two(word)>> ELSE <<>>)
    \o <<word \o <<"s">>, word \o <<"I","d">>, word \o <<"B","y">>, word \o <<"L","i","s","t">>>>
    \o (IF word # <<>> /\ is_lowercase(word[1])
        THEN <<<<char_to_uppercase(word[1])>> \o Tail(word)>> ELSE <<>>)
    \o (IF word # <<>> /\ is_uppercase(word[1])
        THEN <<<<char_to_lowercase(word[1])>> \o Tail(word)>> ELSE <<>>)

\* generate_mutations(word)
generate_mutations(word) ==
    <<<<"x">> \o word>>
    \o (IF Len(word) > 2 THEN <<SubSeq(word, 1, Len(word) - 1)>> ELSE <<>>)
    \o (IF Len(word) >= 2 /\ swap_first_two(word) # word
        THEN <<swap_first_two(word)>> ELSE <<>>)
    \o <<word \o <<"s">>, word \o <<"I","d">>, word \o <<"B","y">>, word \o <<"L","i","s","t">>>>
    \o (IF word # <<>> /\ is_lowercase(word[1])
        THEN <<<<char_to_uppercase(word[1])>> \o Tail(word)>> ELSE <<>>)
    \o (IF word # <<>> /\ is_uppercase(word[1])
        THEN <<<<char_to_lowercase(word[1])>> \o Tail(word)>> ELSE <<>>)

\* a mutant of push_if_unseen: every mutation is pushed
push_always(acc, mutation) ==
    [probes |-> Append(acc.probes, mutation), seen |-> acc.seen \cup {mutation}]

\* if seen.insert(mutation.clone()) { probes.push(mutation); }
push_if_unseen(acc, mutation) ==
    IF mutation \in acc.seen THEN acc
    ELSE [probes |-> Append(acc.probes, mutation), seen |-> acc.seen \cup {mutation}]

\* the inner loop of full_probe_list over the mutations of one word
RECURSIVE push_mutations(_, _)
push_mutations(acc, mutations) ==
    IF mutations = <<>> THEN acc
    ELSE push_mutations(push_if_unseen(acc, Head(mutations)), Tail(mutations))

\* the outer loop of full_probe_list over the base words
RECURSIVE push_words(_, _)
push_words(acc, words) ==
    IF words = <<>> THEN acc
    ELSE push_words(push_mutations(acc, generate_mutations(Head(words))), Tail(words))

\* full_probe_list(), the vocabulary BASE_WORDS being base_words
full_probe_list(base_words) == push_words([probes |-> <<>>, seen |-> {}], base_words).probes

(***************************************************************************)
(* SpecWords: the corpus builder on small vocabularies                     *)
(***************************************************************************)
MaxWords == 2    \* number of words in the base vocabulary

s_me == <<"m","e">>
s_tag == <<"t","a","g">>
s_tax == <<"t","a","x">>
s_date == <<"d","a","t","e">>
s_data == <<"d","a","t","a">>

\* words of BASE_WORDS; tag/tax and date/data share a mutation
BaseWordPool == {s_user, s_users, s_me, s_id, s_tag, s_tax, s_date, s_data}

\* the vocabularies: lists of distinct words of the pool
Vocabularies ==
    { v \in UNION { [1..k -> BaseWordPool] : k \in 1..MaxWords } :
        \A i, j \in 1..Len(v) : i # j => v[i] # v[j] }

\* the words generate_mutations is applied to: base words, and words that
\* start with an uppercase letter, a non-letter or a doubled letter
MutationWords ==
    BaseWordPool \cup {sUser, <<"a">>, <<"a","a">>, <<"e","e","l">>, <<"_","i","d">>}

WordsInit ==
    /\ schema = NewSchema
    /\ calls = <<>>
    /\ probed_types = {}
    /\ schema_lock = "free"
    /\ probed_lock = "free"
    /\ max_depth = 0
    /\ inflight = NoRequest
    /\ pc = "words"
    /\ root = RootLocals
    /\ runv = RunLocals
    /\ stack = <<>>

\* the first call of full_probe_list()
WordsCall ==
    /\ pc = "words"
    /\ \E v \in Vocabularies :
        calls' = <<[op |-> "full_probe_list", words |-> v, out |-> full_probe_list(v)]>>
    /\ pc' = "words_once"
    /\ UNCHANGED <<schema, probed_types, schema_lock, probed_lock, max_depth,
                   inflight, root, runv, stack>>

\* a second call of full_probe_list(), over the same vocabulary
WordsCallAgain ==
    /\ pc = "words_once"
    /\ calls' = Append(calls, [op |-> "full_probe_list", words |-> calls[1].words,
                               out |-> full_probe_list(calls[1].words)])
    /\ pc' = "words_twice"
    /\ UNCHANGED <<schema, probed_types, schema_lock, probed_lock, max_depth,
                   inflight, root, runv, stack>>

\* generate_mutations(word)
MutationsCall ==
    /\ pc = "words"
    /\ \E w \in MutationWords :
        calls' = <<[op |-> "generate_mutations", word |-> w, out |-> generate_mutations(w)]>>
    /\ pc' = "mutations_done"
    /\ UNCHANGED <<schema, probed_types, schema_lock, probed_lock, max_depth,
                   inflight, root, runv, stack>>

WordsNext == WordsCall \/ WordsCallAgain \/ MutationsCall

SpecWords == WordsInit /\ [][WordsNext]_vars

\* every mutation generated for the words of a vocabulary, in generation
\* order, duplicates included
RECURSIVE generated(_)
generated(words) ==
    IF words = <<>> THEN <<>>
    ELSE generate_mutations(Head(words)) \o generated(Tail(words))

\* the position at which a string is generated first
first_generation(gen, s) ==
    CHOOSE i \in 1..Len(gen) : gen[i] = s /\ \A j \in 1..(i - 1) : gen[j] # s

\* C24: full_probe_list returns every generated string once, in the order of
\* the first generations (words in vocabulary order, the mutations of a word
\* in policy order), and a second call returns the same sequence.
C24_ProbeListDedupStable ==
    pc \in {"words_once", "words_twice"} =>
        LET out == calls[1].out
            gen == generated(calls[1].words)
        IN  /\ \A i, j \in 1..Len(out) : i # j => out[i] # out[j]
            /\ { out[i] : i \in 1..Len(out) } = { gen[i] : i \in 1..Len(gen) }
            /\ \A i, j \in 1..Len(out) :
                  i < j => first_generation(gen, out[i]) < first_generation(gen, out[j])
            /\ pc = "words_twice" => calls[2].out = calls[1].out

\* C24 witness: the vocabulary tag, tax, whose words both give "ta", was
\* listed twice; "ta" stands once, where tag generated it
C24_Witness ==
    /\ pc = "words_twice"
    /\ calls[1].words = <<s_tag, s_tax>>
    /\ calls[2].out[2] = <<"t","a">>
    /\ Len(calls[2].out) = Len(generated(calls[1].words)) - 1

\* C25: generate_mutations(w) is "x"+w; w without its last character if w
\* has more than 2 characters; w with its first two characters exchanged if
\* w has 2 or more and the result is not w; w+"s", w+"Id", w+"By", w+"List";
\* and w with its first letter in the other case if it is a letter. For
\* user: xuser, use, suer, users, userId, userBy, userList, User.
C25_MutationPolicy ==
    pc = "mutations_done" =>
        LET w == calls[1].word
            out == calls[1].out
            n == Len(w)
            drop == n > 2
            swap == n >= 2 /\ w[1] # w[2]
            flip == is_lowercase(w[1]) \/ is_uppercase(w[1])
            k == 1 + (IF drop THEN 1 ELSE 0) + (IF swap THEN 1 ELSE 0)
        IN  /\ Len(out) = k + 4 + (IF flip THEN 1 ELSE 0)
            /\ out[1] = <<"x">> \o w
            /\ drop => out[2] = SubSeq(w, 1, n - 1)
            /\ swap => out[k] = <<w[2], w[1]>> \o SubSeq(w, 3, n)
            /\ out[k + 1] = w \o <<"s">>
            /\ out[k + 2] = w \o <<"I","d">>
            /\ out[k + 3] = w \o <<"B","y">>
            /\ out[k + 4] = w \o <<"L","i","s","t">>
            /\ flip => /\ Tail(out[k + 5]) = Tail(w)
                       /\ out[k + 5][1] # w[1]
                       /\ char_to_lowercase(out[k + 5][1]) = char_to_lowercase(w[1])
            /\ w = s_user =>
                  out = <<<<"x","u","s","e","r">>, <<"u","s","e">>, <<"s","u","e","r">>, <<"u","s","e","r","s">>, <<"u","s","e","r","I","d">>, <<"u","s","e","r","B","y">>,
                          <<"u","s","e","r","L","i","s","t">>, <<"U","s","e","r">>>>

\* C25 witness: generate_mutations was applied to the two-character word me,
\* which has no drop-last variant
C25_Witness ==
    /\ pc = "mutations_done"
    /\ calls[1].word = s_me
    /\ calls[1].out = <<<<"x","m","e">>, <<"e","m">>, <<"m","e","s">>, <<"m","e","I","d">>, <<"m","e","B","y">>, <<"m","e","L","i","s","t">>, <<"M","e">>>>

(***************************************************************************)
(* Properties of the walk                                                  *)
(***************************************************************************)
\* positions inside probe_root_type
RootPcs ==
    {"r_loop", "r_wait", "r_err", "r_sugg", "r_add_lock", "r_add", "r_check",
     "r_check_wait", "r_check_err", "r_brute", "r_brute_wait", "r_brute_no",
     "r_brute_lock", "r_brute_add", "r_brute_bare", "r_brute_bare_wait",
     "r_bare_err"}

\* an activation that passed the depth test and the admission test
InBody(fr) == fr.pc \notin {"enter", "admit"}

\* whether field f of type t exists in schema s with type reference c
FieldTyped(s, t, f, c) ==
    /\ t \in DOMAIN s.types
    /\ f \in DOMAIN s.types[t].fields
    /\ s.types[t].fields[f].type_name = Some(c)

FieldExists(s, t, f) ==
    /\ t \in DOMAIN s.types
    /\ f \in DOMAIN s.types[t].fields

\* C2: the probing body of probe_type_recursive runs at most once per type
\* name.  The visited set only grows; an activation enters its body only at
\* the admission test, for a name that was not in the set and is in it
\* afterwards; a call for a name already in the set returns at the admission
\* test with no request issued and the schema unchanged.
C2_BodyOncePerType ==
    [][ /\ probed_types \subseteq probed_types'
        /\ (stack # <<>> /\ ~InBody(Top)) =>
              (schema' = schema /\ inflight = NoRequest /\ inflight' = NoRequest)
        /\ (InRec("admit") /\ Top.type_name \in probed_types) =>
              (stack' = Pop /\ probed_types' = probed_types)
        /\ \A k \in DOMAIN stack' :
              (InBody(stack'[k]) /\ ~(k \in DOMAIN stack /\ InBody(stack[k])))
                 => /\ InRec("admit")
                    /\ k = Len(stack)
                    /\ stack'[k].type_name = Top.type_name
                    /\ Top.type_name \notin probed_types
                    /\ Top.type_name \in probed_types'
        /\ \A k \in DOMAIN stack' :
              (k \in DOMAIN stack /\ InBody(stack[k]))
                 => stack'[k].type_name = stack[k].type_name
      ]_vars

\* C2 witness: a cycle of two types leads back to a type whose body is still
\* running two activations below: the call stands at the admission test
C2_Witness ==
    /\ InRec("admit")
    /\ Len(stack) = 3
    /\ Top.type_name \in probed_types
    /\ stack[1].type_name = Top.type_name
    /\ stack[2].type_name # Top.type_name
    /\ InBody(stack[1]) /\ InBody(stack[2])

\* C3: a call with depth > max_depth returns at once, with no request, the
\* schema, the visited set and both locks unchanged; so a name enters the
\* visited set only at a depth d with 1 <= d <= max_depth.
C3_DepthGuardIsNoOp ==
    [][ /\ (InRec("enter") /\ Top.depth > max_depth) =>
              /\ stack' = Pop
              /\ pc' = IF Len(stack) = 1 THEN "run_loop" ELSE "rec"
              /\ UNCHANGED <<schema, probed_types, inflight, schema_lock, probed_lock>>
              /\ inflight = NoRequest
        /\ (probed_types' # probed_types) =>
              /\ InRec("admit")
              /\ 1 <= Top.depth /\ Top.depth <= max_depth
              /\ probed_types' = probed_types \cup {Top.type_name}
      ]_vars

\* C3 witness: a call for a type not yet visited arrives beyond the depth bound
C3_Witness ==
    /\ InRec("enter")
    /\ max_depth >= 1
    /\ Top.depth > max_depth
    /\ Top.type_name \notin probed_types

\* C4: with max_depth = 0 no activation of probe_type_recursive enters its
\* body, every request is a root-level one (issued by probe_root_type, with no
\* context around the field), the visited set stays empty, and when run has
\* returned every collected hint (f -> T) whose field f exists in the root
\* type is recorded there as type_name = Some(T).
C4_DepthZero ==
    (max_depth = 0) =>
        /\ probed_types = {}
        /\ \A k \in DOMAIN stack : ~InBody(stack[k])
        /\ (inflight # NoRequest) =>
              (stack = <<>> /\ pc \in RootPcs /\ count_open(inflight.query) = 1)
        /\ (pc = "done") =>
              \A p \in runv.object_fields :
                  FieldExists(schema, runv.root_type_name, p[1])
                     => FieldTyped(schema, runv.root_type_name, p[1], p[2])

\* C4 witness: run has returned with max_depth = 0 and a hinted root field
\* carries its type
C4_Witness ==
    /\ max_depth = 0
    /\ pc = "done"
    /\ \E p \in runv.object_fields :
          FieldTyped(schema, runv.root_type_name, p[1], p[2])

\* C5: run returns, for every server answer, every max_depth and every
\* pattern of failed requests; the nesting of probe_type_recursive never
\* exceeds the depth bound by more than the one call the depth test rejects.
C5_RunReturns ==
    /\ <>(pc = "done")
    /\ [](Len(stack) <= max_depth + 1)
    /\ [](Cardinality({k \in DOMAIN stack : InBody(stack[k])}) <= Cardinality(probed_types))

\* C5 witness: run has returned after walking two types that reference each
\* other
C5_Witness ==
    /\ pc = "done"
    /\ probed_types = {sUser, sPost}
    /\ FieldTyped(schema, sUser, s_posts, sPost)
    /\ FieldTyped(schema, sPost, s_user, sUser)

\* what a probe can have taught so far: the hint candidates and the
\* discovered names of the running activation
Learned ==
    IF stack = <<>>
    THEN <<root.object_fields, root.discovered_fields, root.root_type_name>>
    ELSE <<Top.child_object_types, Top.discovered_fields, Top.type_name>>

\* C6: a failed request teaches nothing and is not fatal.  At the position
\* reached by an Err the step leaves the schema, the visited set and what was
\* learned unchanged, and goes on with the next probe (root corpus, short
\* names), the next field (root re-probe pass) or the next context (nested
\* probes); run never ends in Err.
C6_FailedProbeTeachesNothing ==
    [][ /\ pc' # "failed"
        /\ (pc \in {"r_err", "r_check_err", "r_brute_no", "r_bare_err"}) =>
              /\ UNCHANGED <<schema, probed_types, stack, runv>>
              /\ Learned' = Learned
              /\ pc = "r_err" => (pc' = "r_loop" /\ root'.i = root.i + 1)
              /\ pc = "r_check_err" => (pc' = "r_check" /\ root'.to_check = root.to_check)
              /\ pc \in {"r_brute_no", "r_bare_err"} =>
                    (pc' = "r_brute" /\ root'.shorti = root.shorti + 1)
        /\ (InRec("c_err") \/ InRec("k_err") \/ InRec("b_no")) =>
              /\ UNCHANGED <<schema, probed_types, pc, runv>>
              /\ Len(stack') = Len(stack)
              /\ Learned' = Learned
              /\ Top'.ctxi = Top.ctxi + 1
              /\ Top'.i = Top.i /\ Top'.shorti = Top.shorti
              /\ Top'.pc = CASE Top.pc = "c_err" -> "c_ctx"
                             [] Top.pc = "k_err" -> "k_ctx"
                             [] Top.pc = "b_no" -> "b_ctx"
      ]_vars

\* C6 witness: the second context's request of a nested probe has failed after
\* the first one's answer gave a hint candidate
C6_Witness ==
    /\ InRec("c_err")
    /\ schema.discovery_log # <<>>
    /\ DOMAIN Top.child_object_types # {}
    /\ Top.ctxi = 2

\* the suggestion the corpus loop of the running activation is looking at
CurSuggestion == Top.result.suggestions[Top.si]

\* C7: while type T is probed, a suggestion whose parent is not T adds no
\* field, appends no log entry and does not set found; the corpus loop for T
\* changes no type of the schema but T.
C7_ForeignParentDiscarded ==
    [][ /\ (InRec("c_sugg") /\ Top.si <= Len(Top.result.suggestions)
            /\ CurSuggestion.parent_type # Some(Top.type_name)) =>
              /\ schema' = schema
              /\ Top'.found = Top.found
              /\ Top'.discovered_fields = Top.discovered_fields
              /\ Top'.si = Top.si + 1 /\ Top'.pc = "c_sugg"
        /\ (stack # <<>> /\ Top.pc \in {"c_loop", "c_ctx", "c_wait", "c_err", "c_sugg",
                                        "c_add_lock", "c_add"}) =>
              /\ \A t \in DOMAIN schema'.types :
                    t # Top.type_name =>
                       (t \in DOMAIN schema.types /\ schema'.types[t] = schema.types[t])
              /\ \A k \in 1..Len(schema'.discovery_log) :
                    k > Len(schema.discovery_log) =>
                       schema'.discovery_log[k].parent_type = Top.type_name
      ]_vars

\* C7 witness: the corpus loop for T meets a suggestion about another type
\* after it has used one about T
C7_Witness ==
    /\ InRec("c_sugg")
    /\ Top.si <= Len(Top.result.suggestions)
    /\ CurSuggestion.parent_type # Some(Top.type_name)
    /\ schema.discovery_log # <<>>

\* C8: in phase 1 the root name, once it differs from "Query", never changes,
\* and while it is "Query" a suggestion with another parent sets it to that
\* parent; schema.query_type is written at one position only, reached once,
\* after probe_root_type has returned and before any activation of
\* probe_type_recursive, with the resolved name.
C8_RootNameLockedAndWrittenOnce ==
    [][ /\ (pc \in RootPcs /\ pc' \in RootPcs /\ root.root_type_name # sQuery) =>
              root'.root_type_name = root.root_type_name
        /\ (pc = "r_sugg" /\ root.si <= Len(root.result.suggestions)
            /\ root.root_type_name = sQuery) =>
              Some(root'.root_type_name) = root.result.suggestions[root.si].parent_type
        /\ (pc \in RootPcs) => schema'.query_type = sQuery
        /\ (pc' = "run_set_root") =>
              (pc = "r_brute" /\ runv'.root_type_name = root.root_type_name)
        /\ (pc = "run_set_root") =>
              /\ stack = <<>> /\ probed_types = {} /\ inflight = NoRequest
              /\ schema'.query_type = runv.root_type_name
              /\ pc' = "run_loop"
        /\ (pc \notin RootPcs /\ pc # "run_set_root") =>
              /\ schema'.query_type = schema.query_type
              /\ schema.query_type = runv.root_type_name
              /\ runv'.root_type_name = runv.root_type_name
              /\ pc' \notin RootPcs /\ pc' # "run_set_root"
      ]_vars

\* C8 witness: the root name is locked to "QueryRoot" and a suggestion with
\* parent "User" is being handled
C8_Witness ==
    /\ pc = "r_add_lock"
    /\ root.root_type_name = sQueryRoot
    /\ root.result.suggestions[root.si].parent_type = Some(sUser)

\* C9: no request is in flight while the walker holds the schema guard or the
\* visited-set guard.
C9_NoLockAcrossRequest ==
    (inflight # NoRequest) => (schema_lock = "free" /\ probed_lock = "free")

\* C9 witness: the bare query of the short-name pass is in flight, right after
\* the guard that covered add_field was dropped
C9_Witness ==
    /\ pc = "r_brute_bare_wait"
    /\ inflight.kind = "send_probe"
    /\ FieldExists(schema, root.root_type_name, SHORT_FIELD_BRUTE[root.shorti])

\* the walker stands between the log append of a suggestion and the insertion
\* of the last of its names
InCompoundUpdate ==
    \/ /\ pc \in {"r_add_lock", "r_add"}
       /\ root.fi <= Len(root.result.suggestions[root.si].suggestions)
    \/ /\ stack # <<>> /\ pc = "rec" /\ Top.pc \in {"c_add_lock", "c_add"}
       /\ Top.fi <= Len(CurSuggestion.suggestions)

\* C10: the log append and the field insertions of one suggestion happen under
\* one continuous hold of the schema lock.
C10_CompoundUpdateUnderOneHold ==
    InCompoundUpdate => schema_lock = "walker"

\* C26 as stated: when probe_root_type has returned the root name R, every
\* type that holds a field is R (phase 1 added fields to no other type).
C26_Phase1FieldsOnRoot ==
    pc = "run_set_root" =>
        \A t \in DOMAIN schema.types : FieldsOf(schema, t) # {} => t = runv.root_type_name

\* the innermost probe_type_recursive activation is about to return Ok(())
\* after its loop over the child types
RecReturning == InRec("ch_loop") /\ Top.children = {}

\* C27 as stated: when probe_type_recursive(T, ..) returns after its children
\* loop, every child hint (f -> C) it collected is applied: f is a field of T
\* with type_name = Some(C).
C27_ChildHintsApplied ==
    RecReturning =>
        \A f \in DOMAIN Top.child_object_types :
            FieldTyped(schema, Top.type_name, f, Top.child_object_types[f])

\* C28 as stated: where the corpus loop of probe_type_recursive records the
\* hints of a response, and where its re-probe pass does, the candidates
\* become what phase 1 would make of them: each hint (f -> C) is the candidate
\* of f unless f has one, whatever C and f are.
C28_HintsAsPhase1 ==
    [][ /\ (InRec("c_sugg") /\ Top.si > Len(Top.result.suggestions)) =>
              stack'[Len(stack)].child_object_types
                  = record_hints(Top.child_object_types, Top.result.object_type_hints)
        /\ InRec("k_wait") =>
              \E resp \in ProbeResponses :
                  stack'[Len(stack)].child_object_types
                      = IF resp.ok
                        THEN record_hints(Top.child_object_types,
                                          resp.result.object_type_hints)
                        ELSE Top.child_object_types
      ]_vars

\* the type of the first hint for field f in a list of hints
RECURSIVE first_hint_type(_, _)
first_hint_type(hints, f) ==
    IF Head(hints).field_name = f THEN Head(hints).type_name
    ELSE first_hint_type(Tail(hints), f)

\* the fields the hints of a list speak of
hinted_fields(hints) == { hints[i].field_name : i \in 1..Len(hints) }

\* candidates after is candidates before with, for each field of the hints
\* that had none, the type of the first hint observed for it
FirstHintWins(before, after, hints) ==
    /\ DOMAIN after = DOMAIN before \cup hinted_fields(hints)
    /\ \A f \in DOMAIN before : after[f] = before[f]
    /\ \A f \in hinted_fields(hints) \ DOMAIN before : after[f] = first_hint_type(hints, f)

\* C29 as stated: in phase 1 and in one probe_type_recursive call, a field
\* that has a candidate child type keeps it, and a field without one takes
\* the type of the first hint observed for it; the type set on a field is
\* its candidate.
C29_FirstHintWins ==
    [][ /\ (pc = "r_sugg" /\ root.si > Len(root.result.suggestions)) =>
              FirstHintWins(root.object_fields, root'.object_fields,
                            root.result.object_type_hints)
        /\ (InRec("c_sugg") /\ Top.si > Len(Top.result.suggestions)) =>
              FirstHintWins(Top.child_object_types,
                            stack'[Len(stack)].child_object_types,
                            Top.result.object_type_hints)
        /\ (stack # <<>> /\ Len(stack') >= Len(stack)) =>
              \A f \in DOMAIN Top.child_object_types :
                  /\ f \in DOMAIN stack'[Len(stack)].child_object_types
                  /\ stack'[Len(stack)].child_object_types[f] = Top.child_object_types[f]
        /\ (InRec("ch_loop") /\ Top.children # {}) =>
              \E f \in DOMAIN Top.child_object_types :
                  /\ stack'[Len(stack')].type_name = Top.child_object_types[f]
                  /\ FieldExists(schema, Top.type_name, f) =>
                        FieldTyped(schema', Top.type_name, f, Top.child_object_types[f])
      ]_vars

\* the number of opening and of closing braces of a text
opening_braces(text) == Cardinality({ i \in 1..Len(text) : text[i] = "{" })
closing_braces(text) == Cardinality({ i \in 1..Len(text) : text[i] = "}" })

\* the text ends with n closers " }"
ends_with_closers(text, n) ==
    /\ Len(text) >= 2 * n
    /\ \A i \in 1..n : /\ text[Len(text) - 2 * i + 1] = " "
                       /\ text[Len(text) - 2 * i + 2] = "}"

\* C30: every query in flight has as many closing as opening braces; every
\* context of an activation at depth d has d-1 opening braces and none
\* closed; a nested query sent at depth d has d+1 opening braces and ends
\* with the d-1 closers of its context after the two of the innermost probe,
\* and so does the query synthesized from any context of any activation.
C30_BalancedQueries ==
    /\ \A k \in 1..Len(stack) : \A c \in 1..Len(stack[k].contexts) :
          \A i \in 1..Len(probes) :
              LET query == nested_query(stack[k].contexts[c], probes[i])
              IN  /\ opening_braces(query) = closing_braces(query)
                  /\ opening_braces(query) = stack[k].depth + 1
                  /\ ends_with_closers(query, stack[k].depth + 1)
    /\ inflight # NoRequest =>
          opening_braces(inflight.query) = closing_braces(inflight.query)
    /\ \A k \in 1..Len(stack) : \A c \in 1..Len(stack[k].contexts) :
          /\ opening_braces(stack[k].contexts[c]) = stack[k].depth - 1
          /\ closing_braces(stack[k].contexts[c]) = 0
    /\ (inflight # NoRequest /\ stack # <<>>) =>
          /\ opening_braces(inflight.query) = Top.depth + 1
          /\ ends_with_closers(inflight.query, Top.depth + 1)

\* C30 witness: a nested query is in flight for a type at depth 2, reached
\* through a context with one open brace
C30_Witness ==
    /\ stack # <<>>
    /\ Top.depth = 2
    /\ inflight # NoRequest
    /\ inflight.kind = "send_probe"
    /\ opening_braces(inflight.query) = 3

\* a result holds a suggestion whose parent is type t
HasOwnSuggestion(result, t) ==
    \E k \in 1..Len(result.suggestions) :
        unwrap_or(result.suggestions[k].parent_type, t) = t

\* the innermost activation after the step (the step stays inside it)
TopAfter == stack'[Len(stack)]

\* C31: in the corpus loop of probe_type_recursive a probe starts with the
\* first context; the query sent is the one of the current context; after a
\* response with a suggestion about the probed type the loop goes to the next
\* probe and no later context is queried; after any other response and after
\* a failed request the next context is the one queried, until none is left.
C31_ContextOrderAndBreak ==
    [][ /\ (InRec("c_loop") /\ Top.i <= Len(probes)) =>
              TopAfter.ctxi = 1 /\ TopAfter.i = Top.i /\ TopAfter.pc = "c_ctx"
        /\ (InRec("c_ctx") /\ Top.ctxi <= Len(Top.contexts)) =>
              /\ inflight' = Request("send_probe",
                                     nested_query(Top.contexts[Top.ctxi], probes[Top.i]))
              /\ TopAfter.ctxi = Top.ctxi /\ TopAfter.i = Top.i
        /\ (InRec("c_ctx") /\ Top.ctxi > Len(Top.contexts)) =>
              inflight' = NoRequest /\ TopAfter.i = Top.i + 1 /\ TopAfter.pc = "c_loop"
        /\ InRec("c_wait") =>
              TopAfter.ctxi = Top.ctxi /\ TopAfter.i = Top.i
                 /\ TopAfter.pc \in {"c_sugg", "c_err"}
        /\ InRec("c_err") =>
              TopAfter.ctxi = Top.ctxi + 1 /\ TopAfter.i = Top.i /\ TopAfter.pc = "c_ctx"
        /\ (InRec("c_sugg") /\ Top.si > Len(Top.result.suggestions)) =>
              IF HasOwnSuggestion(Top.result, Top.type_name)
              THEN TopAfter.i = Top.i + 1 /\ TopAfter.pc = "c_loop"
              ELSE TopAfter.ctxi = Top.ctxi + 1 /\ TopAfter.i = Top.i
                      /\ TopAfter.pc = "c_ctx"
        /\ (InRec("c_sugg") /\ Top.si <= Len(Top.result.suggestions)) \/ InRec("c_add_lock")
              \/ InRec("c_add") =>
              TopAfter.ctxi = Top.ctxi /\ TopAfter.i = Top.i
                 /\ TopAfter.result = Top.result
      ]_vars

\* C31 witness: the second context of a probe is being queried after the
\* first one failed or gave no suggestion about the probed type
C31_Witness ==
    /\ InRec("c_wait")
    /\ Top.ctxi = 2
    /\ inflight = Request("send_probe", nested_query(Top.contexts[2], probes[Top.i]))

\* a second C31 position: the loop left a probe at its first context, whose
\* response held a suggestion about the probed type
C31_BreakReached ==
    /\ InRec("c_sugg")
    /\ Top.ctxi = 1
    /\ Top.si > Len(Top.result.suggestions)
    /\ HasOwnSuggestion(Top.result, Top.type_name)

\* C32 as stated: the probe list holds every word of the vocabulary and every
\* mutation of every word.
C32_BaseWordsIncluded ==
    pc \in {"words_once", "words_twice"} =>
        LET out == calls[1].out
            listed == { out[i] : i \in 1..Len(out) }
        IN  \A k \in 1..Len(calls[1].words) :
                /\ calls[1].words[k] \in listed
                /\ \A m \in 1..Len(generate_mutations(calls[1].words[k])) :
                      generate_mutations(calls[1].words[k])[m] \in listed

(***************************************************************************)
(* SpecWalk: the walk against a scripted server, which answers each        *)
(* request by a fixed schema and never fails                               *)
(***************************************************************************)
sTag == <<"T","a","g">>

\* the schemas a scripted server answers by: for each type, its fields and
\* the object type of each field (None for a scalar)
DiamondServer ==
    [root |-> sQuery,
     types |-> (sQuery :> (s_user :> Some(sUser) @@ s_posts :> Some(sPost)))
            @@ (sUser :> (s_id :> None @@ s_posts :> Some(sPost)))
            @@ (sPost :> (s_tag :> Some(sTag)))
            @@ (sTag :> (s_id :> None))]

ChainServer ==
    [root |-> sQueryRoot,
     types |-> (sQueryRoot :> (s_user :> Some(sUser)))
            @@ (sUser :> (s_posts :> Some(sPost)))
            @@ (sPost :> (s_id :> None @@ s_tag :> Some(sTag)))
            @@ (sTag :> EmptyMap)]

CycleServer ==
    [root |-> sQuery,
     types |-> (sQuery :> (s_id :> None @@ s_user :> Some(sUser)))
            @@ (sUser :> (s_user :> Some(sUser) @@ s_posts :> Some(sPost)))
            @@ (sPost :> (s_user :> Some(sUser)))]

ScriptedServers == {DiamondServer, ChainServer, CycleServer}

\* the server of the walk
Server == calls[1].server

\* the names a server suggests for a type: its fields in ascending order,
\* but for the names too short to be suggested
suggested_names(server, type_name) ==
    btree_keys({ f \in DOMAIN server.types[type_name] : Len(f) > 2 })

\* the server's answer to a query that selects `name` on type_name, as
\* parse_probe_response reads it: a hint for an object field without a
\* selection, nothing for a scalar field, and for an unknown field a
\* suggestion of the type's names
scripted_probe(server, type_name, name) ==
    IF name \in DOMAIN server.types[type_name]
    THEN IF server.types[type_name][name] # None
         THEN ProbeResult(<<>>, <<Hint(name, server.types[type_name][name][1])>>)
         ELSE ProbeResult(<<>>, <<>>)
    ELSE IF suggested_names(server, type_name) # <<>>
    THEN ProbeResult(<<Suggestion(name, suggested_names(server, type_name), type_name)>>,
                     <<>>)
    ELSE ProbeResult(<<>>, <<>>)

\* the server's answer to field_exists for `name` on type_name
scripted_exists(server, type_name, name) ==
    [ok |-> TRUE, exists |-> name \in DOMAIN server.types[type_name]]

WalkInit ==
    /\ schema = NewSchema
    /\ \E server \in ScriptedServers : calls = <<[op |-> "serve", server |-> server]>>
    /\ probed_types = {}
    /\ schema_lock = "free"
    /\ probed_lock = "free"
    /\ max_depth \in 0..MaxDepthBound
    /\ inflight = NoRequest
    /\ pc = "r_loop"
    /\ root = RootLocals
    /\ runv = RunLocals
    /\ stack = <<>>

\* the answers of the scripted server, received where the walker waits
WalkRootRecv ==
    /\ pc = "r_wait"
    /\ LET resp == OkResponse(scripted_probe(Server, Server.root, probes[root.i]))
       IN  /\ root' = root_recv(root, resp).locals
           /\ pc' = root_recv(root, resp).pc
    /\ inflight' = NoRequest
    /\ UNCHANGED <<schema, calls, probed_types, schema_lock, probed_lock, max_depth, runv, stack>>

WalkRootCheckRecv ==
    /\ pc = "r_check_wait"
    /\ \E field_name \in DOMAIN Server.types[Server.root] :
        /\ inflight.query = bare_query(field_name)
        /\ LET resp == OkResponse(scripted_probe(Server, Server.root, field_name))
           IN  /\ root' = root_check_recv(root, resp).locals
               /\ pc' = root_check_recv(root, resp).pc
    /\ inflight' = NoRequest
    /\ UNCHANGED <<schema, calls, probed_types, schema_lock, probed_lock, max_depth, runv, stack>>

WalkRootBruteRecv ==
    /\ pc = "r_brute_wait"
    /\ LET resp == scripted_exists(Server, Server.root, SHORT_FIELD_BRUTE[root.shorti])
       IN  /\ root' = root_brute_recv(root, resp).locals
           /\ pc' = root_brute_recv(root, resp).pc
    /\ inflight' = NoRequest
    /\ UNCHANGED <<schema, calls, probed_types, schema_lock, probed_lock, max_depth, runv, stack>>

WalkRootBruteBareRecv ==
    /\ pc = "r_brute_bare_wait"
    /\ LET resp == OkResponse(scripted_probe(Server, Server.root,
                                             SHORT_FIELD_BRUTE[root.shorti]))
       IN  /\ root' = root_brute_bare_recv(root, resp).locals
           /\ pc' = root_brute_bare_recv(root, resp).pc
    /\ inflight' = NoRequest
    /\ UNCHANGED <<schema, calls, probed_types, schema_lock, probed_lock, max_depth, runv, stack>>

WalkRecRecv ==
    /\ InRec("c_wait")
    /\ stack' = WithTop(rec_recv(Top, OkResponse(
                   scripted_probe(Server, Top.type_name, probes[Top.i]))))
    /\ inflight' = NoRequest
    /\ UNCHANGED <<schema, calls, probed_types, schema_lock, probed_lock, max_depth, pc, root, runv>>

WalkRecCheckRecv ==
    /\ InRec("k_wait")
    /\ stack' = WithTop(rec_check_recv(Top, OkResponse(
                   scripted_probe(Server, Top.type_name, Top.cur))))
    /\ inflight' = NoRequest
    /\ UNCHANGED <<schema, calls, probed_types, schema_lock, probed_lock, max_depth, pc, root, runv>>

WalkRecBruteRecv ==
    /\ InRec("b_wait")
    /\ stack' = WithTop(rec_brute_recv(Top,
                   scripted_exists(Server, Top.type_name, SHORT_FIELD_BRUTE[Top.shorti])))
    /\ inflight' = NoRequest
    /\ UNCHANGED <<schema, calls, probed_types, schema_lock, probed_lock, max_depth, pc, root, runv>>

\* the steps of the walker, with the scripted answers in place of the
\* server's free choice; no request fails
WalkNext ==
    \/ RootLoop \/ WalkRootRecv \/ RootSuggestion \/ RootAddLock \/ RootAdd
    \/ RootCheck \/ WalkRootCheckRecv
    \/ RootBrute \/ WalkRootBruteRecv \/ RootBruteNo \/ RootBruteLock \/ RootBruteAdd
    \/ RootBruteBare \/ WalkRootBruteBareRecv
    \/ RunSetRoot \/ RunLoop \/ RunFinish
    \/ RecEnter \/ RecAdmit \/ RecLoop \/ RecCtx \/ WalkRecRecv
    \/ RecSuggestion \/ RecAddLock \/ RecAdd
    \/ RecCheckField \/ RecCheckCtx \/ WalkRecCheckRecv
    \/ RecBrute \/ RecBruteCtx \/ WalkRecBruteRecv \/ RecBruteNo \/ RecBruteLock
    \/ RecBruteAdd
    \/ RecChildren

SpecWalk == WalkInit /\ [][WalkNext]_vars

\* the types a typed field of schema s leads to from the types of a set
hinted_from(s, ts) ==
    { c \in DOMAIN Server.types :
        \E t \in ts \cap DOMAIN s.types : \E f \in DOMAIN s.types[t].fields :
            s.types[t].fields[f].type_name = Some(c) }

\* the types reached from the root by at most n typed fields of schema s
RECURSIVE reached_within(_, _)
reached_within(s, n) ==
    IF n = 0 THEN {s.query_type}
    ELSE reached_within(s, n - 1) \cup hinted_from(s, reached_within(s, n - 1))

\* C33 as stated: when run() has returned and no probe failed, every type
\* other than the root that a chain of at most max_depth collected hints (the
\* typed fields of the schema) reaches from the root is in the visited set.
C33_CompleteWithinDepth ==
    pc = "done" =>
        reached_within(schema, max_depth) \ {schema.query_type} \subseteq probed_types

\* the object fields of a type of a server, in ascending order
object_fields_of(server, t) ==
    btree_keys({ f \in DOMAIN server.types[t] : server.types[t][f] # None })

\* the visited set of the walk that takes the hinted fields of every type in
\* ascending order: probe_type_recursive(t, .., depth) with visited set seen,
\* and its loop over the fields fs of t
RECURSIVE ordered_visit(_, _, _, _, _)
RECURSIVE ordered_children(_, _, _, _, _, _)
ordered_visit(server, t, depth, seen, bound) ==
    IF depth > bound \/ t \in seen THEN seen
    ELSE ordered_children(server, t, object_fields_of(server, t), depth,
                          seen \cup {t}, bound)
ordered_children(server, t, fs, depth, seen, bound) ==
    IF fs = <<>> THEN seen
    ELSE ordered_children(server, t, Tail(fs), depth,
                          ordered_visit(server, server.types[t][Head(fs)][1],
                                        depth + 1, seen, bound),
                          bound)

\* the visited set when run takes the root's hinted fields in ascending order
ordered_walk(server, bound) ==
    ordered_children(server, server.root, object_fields_of(server, server.root),
                     0, {}, bound)

\* C34 as stated: for one server and one max_depth the walk ends with the
\* same visited set and the same types, fields and field types whatever the
\* iteration order of the hint maps: the ones of the walk that takes the
\* hinted fields in ascending order.
C34_OrderIndependent ==
    pc = "done" =>
        LET visited == ordered_walk(Server, max_depth)
        IN  /\ probed_types = visited
            /\ DOMAIN schema.types
                  = { t \in visited \cup {Server.root} : DOMAIN Server.types[t] # {} }
            /\ \A t \in DOMAIN schema.types :
                  /\ FieldsOf(schema, t) = DOMAIN Server.types[t]
                  /\ \A f \in FieldsOf(schema, t) :
                        schema.types[t].fields[f].type_name = Server.types[t][f]


\* C35 as stated: when run returns, every type of the schema other than
\* query_type is the type_name of at least one field.
C35_NoOrphanTypes ==
    pc = "done" =>
        \A t \in DOMAIN schema.types \ {schema.query_type} :
            \E p \in DOMAIN schema.types :
                \E f \in FieldsOf(schema, p) :
                    schema.types[p].fields[f].type_name = Some(t)


\* C36 as stated: in phase 2 a probe_type_recursive call for the name of the
\* root type issues no request.
C36_RootNotProbedAgain ==
    (pc = "rec" /\ stack # <<>> /\ Top.type_name = runv.root_type_name)
        => inflight = NoRequest


\* every entry of the discovery log has a non-empty list of names, each of
\* them a field of the entry's parent type in the graph
LogAgreesWithGraph ==
    \A i \in 1..Len(schema.discovery_log) :
        LET e == schema.discovery_log[i]
        IN  /\ e.discovered_fields # <<>>
            /\ \A k \in 1..Len(e.discovered_fields) :
                  e.discovered_fields[k] \in FieldsOf(schema, e.parent_type)

\* C37, first part read at lock granularity: whenever the schema lock is free
\* the log agrees with the graph.
C37_LogAgreesWhenUnlocked ==
    schema_lock = "free" => LogAgreesWithGraph

\* C37, first part read at probe granularity: while a request is in flight
\* and when run has returned, the log agrees with the graph.
C37_LogAgreesAtProbes ==
    (inflight # NoRequest \/ pc = "done") => LogAgreesWithGraph

\* C37, second part: every entry a probe_type_recursive(T) call appends to
\* the log has parent type T.
C37_EntriesOfProbedType ==
    [][ (pc = "rec" /\ stack # <<>>
         /\ Len(schema'.discovery_log) > Len(schema.discovery_log)) =>
            \A i \in (Len(schema.discovery_log) + 1)..Len(schema'.discovery_log) :
                schema'.discovery_log[i].parent_type = Top.type_name
      ]_vars


\* C37 as stated: whenever the walker holds no schema lock, and when run has
\* returned, every log entry has a non-empty list of names that are all
\* fields of its parent type; and every entry appended during
\* probe_type_recursive(T) has parent type T.
C37_LogAndGraphAgree ==
    /\ [](C37_LogAgreesWhenUnlocked /\ C37_LogAgreesAtProbes)
    /\ C37_EntriesOfProbedType

====
